---- MODULE Spec2Model ----
(***************************************************************************)
(* Content extraction and chunking of the YMYL audit tool.                 *)
(*                                                                         *)
(* HTMLContentExtractor (src/core/html_extractor.py) parses an HTML        *)
(* string, removes noise, walks the significant elements in document       *)
(* order, formats each as a prefixed record, groups the records into big   *)
(* chunks at H2 boundaries and serialises them.  ContentExtractor          *)
(* (src/core/extractor.py) does the same for a fetched URL with a simpler  *)
(* organizer.  The authentication module (src/core/auth.py) keeps the      *)
(* login state of a browser session in the session state.                  *)
(*                                                                         *)
(* A string is a sequence of tokens.  A token is a word, a white-space     *)
(* character, a phrase the code searches for, or a record prefix.          *)
(* A document is a sequence of element nodes in document order, each with  *)
(* its tag, the index of its parent (0: the soup itself), the text that    *)
(* precedes its child elements, its class list and its data-qa attribute.  *)
(***************************************************************************)
EXTENDS Integers, Sequences, FiniteSets, TLC

\* ------------------------------------------------------------------ bounds
\* Largest number of blocks of a nested document.
MaxBlocks == 2
\* Largest number of elements of a flat (headings and paragraphs) document.
MaxFlat == 4
\* Largest number of blocks of a document of the formatting catalogue.
MaxFormatBlocks == 1
\* Largest number of calls made one after the other on one extractor.
MaxCalls == 3
\* Largest number of blocks of a document of the structure catalogue.
MaxStructureBlocks == 3
\* Largest number of records of a list given to a function on record lists.
MaxRecords == 4
\* Largest number of lines the authentication module writes to the log.
MaxLogLines == 3

\* ------------------------------------------------------------------ strings
SP == " "
NL == "\n"
WhiteSpace == {SP, NL}
\* "W" is the phrase BONUS RISK WARNING, "w" the same phrase in lower case,
\* "LONG" a run of 100 non-blank characters, "EMO" the warning sign.
WarnPhrase == "W"
WarnPhraseLower == "w"
EMO == "EMO"
LONG == "LONG"
QMARK == "?"

\* Characters of a token (str slicing counts characters).
TokLen(t) ==
    IF t = LONG THEN 100 ELSE 1

\* str.lower() on a token.
LowerTok(t) ==
    CASE t = "A" -> "a"
      [] t = "B" -> "b"
      [] t = WarnPhrase -> WarnPhraseLower
      [] t = "H1:" -> "h1:"
      [] t = "H2:" -> "h2:"
      [] t = "H3:" -> "h3:"
      [] t = "CONTENT:" -> "content:"
      [] t = "LEAD:" -> "lead:"
      [] t = "WARNING:" -> "warning:"
      [] t = "TABLE:" -> "table:"
      [] t = "ORDERED_LIST:" -> "ordered_list:"
      [] t = "UNORDERED_LIST:" -> "unordered_list:"
      [] t = "DEFINITION_LIST:" -> "definition_list:"
      [] t = "FAQ:" -> "faq:"
      [] t = "AUTHOR:" -> "author:"
      [] t = "SUBTITLE:" -> "subtitle:"
      [] t = LONG -> "long"
      [] OTHER -> t

Lower(s) ==
    [i \in 1..Len(s) |-> LowerTok(s[i])]

RECURSIVE LStrip(_)
LStrip(s) ==
    IF s # <<>> /\ Head(s) \in WhiteSpace THEN LStrip(Tail(s)) ELSE s

RECURSIVE RStrip(_)
RStrip(s) ==
    IF s # <<>> /\ s[Len(s)] \in WhiteSpace
    THEN RStrip(SubSeq(s, 1, Len(s) - 1))
    ELSE s

\* str.strip()
Strip(s) ==
    RStrip(LStrip(s))

\* re.sub(r'\s+', ' ', s): every run of white space becomes one space.
RECURSIVE CollapseSpaces(_)
CollapseSpaces(s) ==
    IF s = <<>> THEN <<>>
    ELSE IF Head(s) \in WhiteSpace
         THEN <<SP>> \o CollapseSpaces(LStrip(s))
         ELSE <<Head(s)>> \o CollapseSpaces(Tail(s))

\* _clean_text_preserve_structure
CleanText(s) ==
    IF s = <<>> THEN <<>> ELSE Strip(CollapseSpaces(s))

\* s[:n], counted in characters; a token that crosses the cut is cut off.
RECURSIVE Truncate(_, _)
Truncate(s, n) ==
    IF s = <<>> \/ n <= 0 THEN <<>>
    ELSE IF TokLen(Head(s)) > n THEN <<>>
    ELSE <<Head(s)>> \o Truncate(Tail(s), n - TokLen(Head(s)))

\* 'x' in s, for one token x
Contains(s, x) ==
    \E i \in 1..Len(s) : s[i] = x

\* s.startswith(p)
StartsWith(s, p) ==
    Len(s) >= Len(p) /\ SubSeq(s, 1, Len(p)) = p

RECURSIVE Concat(_)
Concat(ss) ==
    IF ss = <<>> THEN <<>> ELSE Head(ss) \o Concat(Tail(ss))

\* sep.join(parts)
RECURSIVE Join(_, _)
Join(parts, sep) ==
    IF parts = <<>> THEN <<>>
    ELSE IF Len(parts) = 1 THEN parts[1]
    ELSE parts[1] \o sep \o Join(Tail(parts), sep)


\* ------------------------------------------------------------------ documents
\* The set of indices S as an ascending sequence (document order).
RECURSIVE Sorted(_)
Sorted(S) ==
    IF S = {} THEN <<>>
    ELSE LET m == CHOOSE x \in S : \A y \in S : x <= y
         IN  <<m>> \o Sorted(S \ {m})

Nodes(d) ==
    1..Len(d)

RECURSIVE Ancestors(_, _)
Ancestors(d, n) ==
    IF d[n].parent = 0 THEN {}
    ELSE {d[n].parent} \cup Ancestors(d, d[n].parent)

\* element.find_all(): every element below n (below the soup when n = 0)
Descendants(d, n) ==
    IF n = 0 THEN Nodes(d) ELSE {m \in Nodes(d) : n \in Ancestors(d, m)}

\* element.find_all(tags), in document order
FindAll(d, n, tags) ==
    Sorted({m \in Descendants(d, n) : d[m].tag \in tags})

\* element.find_all(tags, recursive=False)
FindChildren(d, n, tags) ==
    Sorted({m \in Nodes(d) : d[m].parent = n /\ d[m].tag \in tags})

\* element.find(tags): the first match in document order, 0 when there is none
Find(d, n, tags) ==
    LET found == FindAll(d, n, tags)
    IN  IF found = <<>> THEN 0 ELSE found[1]

\* element.find_parent(tag): the nearest ancestor with the tag, 0 when none
FindParent(d, n, tag) ==
    LET up == {a \in Ancestors(d, n) : d[a].tag = tag}
    IN  IF up = {} THEN 0 ELSE CHOOSE a \in up : \A b \in up : b <= a

\* element.get_text(): the strings of the element and of everything below
\* it, in document order (a node's own string precedes its child elements).
GetText(d, n) ==
    Concat([i \in 1..Len(Sorted({n} \cup Descendants(d, n))) |->
              d[Sorted({n} \cup Descendants(d, n))[i]].text])

\* len(list(element.children)): the node's string, if any, and its child elements
ChildCount(d, n) ==
    (IF d[n].text # <<>> THEN 1 ELSE 0)
      + Cardinality({m \in Nodes(d) : d[m].parent = n})

\* ------------------------------------------------------------------ _preprocess_soup
NoiseTags == {"script", "style", "nav", "footer", "aside", "header"}
CommentTag == "#comment"

\* tag.decompose() for every element of roots: the tree without those
\* subtrees, renumbered.
RemoveSubtrees(d, roots) ==
    LET gone == {n \in Nodes(d) : ({n} \cup Ancestors(d, n)) \cap roots # {}}
        kept == Sorted(Nodes(d) \ gone)
        NewIdx(n) == Cardinality({m \in 1..n : m \notin gone})
    IN  [i \in 1..Len(kept) |->
           [d[kept[i]] EXCEPT !.parent =
               IF d[kept[i]].parent = 0 THEN 0 ELSE NewIdx(d[kept[i]].parent)]]

\* _preprocess_soup: the noise elements, then the comments
PreprocessSoup(d) ==
    RemoveSubtrees(d, {n \in Nodes(d) : d[n].tag \in NoiseTags \cup {CommentTag}})

\* ------------------------------------------------------------------ processed set
\* Characters of the text that enter an element's identity.
IdTextLen == 100

\* _get_element_id: tag name and hash of (first characters of the text,
\* number of children); the hash is taken to be collision-free.
GetElementId(d, n) ==
    <<d[n].tag, Strip(Truncate(GetText(d, n), IdTextLen)), ChildCount(d, n)>>

IsAlreadyProcessed(d, n, proc) ==
    GetElementId(d, n) \in proc

\* Variant: only the element itself is marked, not what is below it.
MarkElementOnly(d, n) ==
    {GetElementId(d, n)}

\* _mark_as_processed for the element and for each element of find_all()
MarkWithDescendants(d, n) ==
    {GetElementId(d, m) : m \in {n} \cup Descendants(d, n)}

ParentContainers == {"table", "ul", "ol", "dl"}

IsInsideProcessedContainer(d, n, proc) ==
    \E c \in ParentContainers :
        /\ FindParent(d, n, c) # 0
        /\ IsAlreadyProcessed(d, FindParent(d, n, c), proc)


\* ------------------------------------------------------------------ formatting
\* A formatter returns the record (NoRecord for None) and the identities it
\* adds to processed_elements.
NoRecord == <<>>

Formatted(rec, marks) ==
    [rec |-> rec, marks |-> marks]

SepRows == <<SP, "//", SP>>
SepCells == <<SP, "|", SP>>
SepPair == <<":", SP>>

WarningClasses == {"warning", "risk-alert", "disclaimer", "alert"}

\* A token in which re.search finds WARNING when case is ignored / respected.
HasWarningWordIgnoreCase(t) ==
    t \in {WarnPhrase, WarnPhraseLower}

HasWarningWord(t) ==
    t = WarnPhrase

\* re.search(r'<sign>.*WARNING.*<sign>', s, re.IGNORECASE): '.' stops at a line break
MatchesBannerPattern(s) ==
    \E i, j, k \in 1..Len(s) :
        /\ i < j /\ j < k
        /\ s[i] = EMO /\ HasWarningWordIgnoreCase(s[j]) /\ s[k] = EMO
        /\ \A m \in i..k : s[m] # NL

\* _is_warning_block
IsWarningBlock(d, n) ==
    LET text == Strip(GetText(d, n))
    IN  \/ MatchesBannerPattern(text)
        \/ \E i \in 1..Len(text) : HasWarningWordIgnoreCase(text[i])
        \/ d[n].cls \cap WarningClasses # {}

\* re.search(r'<sign>[^<sign>]*WARNING[^<sign>]*<sign>', s): <<start, end>> of the
\* leftmost match, <<0, 0>> when there is none
BannerMatch(s) ==
    LET starts == {i \in 1..Len(s) :
                     /\ s[i] = EMO
                     /\ \E k \in (i + 1)..Len(s) :
                          /\ s[k] = EMO
                          /\ \A m \in (i + 1)..(k - 1) : s[m] # EMO
                          /\ \E j \in (i + 1)..(k - 1) : HasWarningWord(s[j])}
    IN  IF starts = {} THEN <<0, 0>>
        ELSE LET i == CHOOSE x \in starts : \A y \in starts : x <= y
                 k == CHOOSE x \in (i + 1)..Len(s) :
                        s[x] = EMO /\ \A m \in (i + 1)..(x - 1) : s[m] # EMO
             IN  <<i, k>>

\* s.replace(m, ''), m not empty
RECURSIVE RemoveAll(_, _)
RemoveAll(s, m) ==
    IF s = <<>> THEN <<>>
    ELSE IF StartsWith(s, m) THEN RemoveAll(SubSeq(s, Len(m) + 1, Len(s)), m)
    ELSE <<Head(s)>> \o RemoveAll(Tail(s), m)

\* _format_warning_block
FormatWarningBlock(d, n) ==
    LET text == CleanText(GetText(d, n))
        bm == BannerMatch(text)
        banner == SubSeq(text, bm[1], bm[2])
    IN  Formatted(
          IF Contains(text, EMO) /\ (\E i \in 1..Len(text) : HasWarningWord(text[i]))
             /\ bm # <<0, 0>>
          THEN <<"WARNING:", SP>> \o banner \o SepRows \o Strip(RemoveAll(text, banner))
          ELSE <<"WARNING:", SP>> \o text,
          MarkWithDescendants(d, n))

Headings == {"h1", "h2", "h3", "h4", "h5", "h6"}

\* f"{element.name.upper()}:"
HeadingPrefix(tag) ==
    CASE tag = "h1" -> "H1:"
      [] tag = "h2" -> "H2:"
      [] tag = "h3" -> "H3:"
      [] tag = "h4" -> "H4:"
      [] tag = "h5" -> "H5:"
      [] tag = "h6" -> "H6:"

\* _format_heading
FormatHeading(d, n) ==
    LET text == CleanText(GetText(d, n))
        pre == HeadingPrefix(d[n].tag)
        fixed == IF StartsWith(text, <<pre>>) THEN Strip(Tail(text)) ELSE text
    IN  Formatted(<<pre, SP>> \o fixed, {GetElementId(d, n)})

\* [f(x) for x in xs if keep(x)]
RECURSIVE NonEmpty(_)
NonEmpty(parts) ==
    IF parts = <<>> THEN <<>>
    ELSE IF Strip(Head(parts)) # <<>>
         THEN <<Head(parts)>> \o NonEmpty(Tail(parts))
         ELSE NonEmpty(Tail(parts))

CleanTexts(d, ns) ==
    [i \in 1..Len(ns) |-> CleanText(GetText(d, ns[i]))]

\* Variant: a row is never paired with the headers.
TableRowLineNoLabels(headers, cells) ==
    IF cells # <<>> /\ NonEmpty(cells) # <<>>
    THEN Join(NonEmpty(cells), SepCells)
    ELSE <<>>

\* One row of _format_table_comprehensive: the line it appends, <<>> for none.
TableRowLine(headers, cells) ==
    IF cells # <<>> /\ NonEmpty(cells) # <<>>
    THEN IF headers # <<>> /\ Len(cells) = Len(headers)
         THEN LET idx == {i \in 1..Len(cells) : Strip(cells[i]) # <<>>}
                  keep == Sorted(idx)
              IN  Join([i \in 1..Len(keep) |->
                          headers[keep[i]] \o SepPair \o cells[keep[i]]], SepCells)
         ELSE Join(NonEmpty(cells), SepCells)
    ELSE <<>>

\* Variant: the table and what is below it are marked only when the table
\* gives a record.
FormatTableMarksIfRows(d, n) ==
    LET header_row == Find(d, n, {"tr"})
        headers == IF header_row # 0 /\ Find(d, header_row, {"th"}) # 0
                   THEN CleanTexts(d, FindAll(d, header_row, {"th"}))
                   ELSE <<>>
        data_rows == FindAll(d, n, {"tr"})
        start_idx == IF headers # <<>> THEN 1 ELSE 0
        body == SubSeq(data_rows, start_idx + 1, Len(data_rows))
        lines == [i \in 1..Len(body) |->
                    TableRowLine(headers,
                                 CleanTexts(d, FindAll(d, body[i], {"td", "th"})))]
        rows == SelectSeq(lines, LAMBDA l : l # <<>>)
    IN  IF rows # <<>>
        THEN Formatted(<<"TABLE:", SP>> \o Join(rows, SepRows), MarkWithDescendants(d, n))
        ELSE Formatted(NoRecord, {})

\* _format_table_comprehensive
FormatTableComprehensive(d, n) ==
    LET header_row == Find(d, n, {"tr"})
        headers == IF header_row # 0 /\ Find(d, header_row, {"th"}) # 0
                   THEN CleanTexts(d, FindAll(d, header_row, {"th"}))
                   ELSE <<>>
        data_rows == FindAll(d, n, {"tr"})
        start_idx == IF headers # <<>> THEN 1 ELSE 0
        body == SubSeq(data_rows, start_idx + 1, Len(data_rows))
        lines == [i \in 1..Len(body) |->
                    TableRowLine(headers,
                                 CleanTexts(d, FindAll(d, body[i], {"td", "th"})))]
        rows == SelectSeq(lines, LAMBDA l : l # <<>>)
    IN  Formatted(
          IF rows # <<>> THEN <<"TABLE:", SP>> \o Join(rows, SepRows) ELSE NoRecord,
          MarkWithDescendants(d, n))

\* Variant: the items are all the li elements below the list, nested ones too.
FormatListAllItems(d, n) ==
    LET texts == CleanTexts(d, FindAll(d, n, {"li"}))
        items == SelectSeq(texts, LAMBDA t : t # <<>>)
        pre == IF d[n].tag = "ol" THEN "ORDERED_LIST:" ELSE "UNORDERED_LIST:"
    IN  Formatted(
          IF items # <<>> THEN <<pre, SP>> \o Join(items, SepRows) ELSE NoRecord,
          MarkWithDescendants(d, n))

\* _format_list_comprehensive
FormatListComprehensive(d, n) ==
    LET texts == CleanTexts(d, FindChildren(d, n, {"li"}))
        items == SelectSeq(texts, LAMBDA t : t # <<>>)
        pre == IF d[n].tag = "ol" THEN "ORDERED_LIST:" ELSE "UNORDERED_LIST:"
    IN  Formatted(
          IF items # <<>> THEN <<pre, SP>> \o Join(items, SepRows) ELSE NoRecord,
          MarkWithDescendants(d, n))

\* The loop of _format_definition_list_comprehensive over the dt/dd elements:
\* term is <<>> for None and <<text>> for a current term.
RECURSIVE Definitions(_, _, _)
Definitions(d, elems, term) ==
    IF elems = <<>> THEN <<>>
    ELSE LET e == Head(elems)
             text == CleanText(GetText(d, e))
         IN  IF d[e].tag = "dt"
             THEN Definitions(d, Tail(elems), <<text>>)
             ELSE IF term # <<>> /\ term[1] # <<>>
                  THEN (IF text # <<>>
                        THEN <<term[1] \o SepPair \o text>>
                        ELSE <<>>) \o Definitions(d, Tail(elems), <<>>)
                  ELSE Definitions(d, Tail(elems), term)

\* Variant: a definition list is never taken for an FAQ.
FormatDefinitionListNoFaq(d, n) ==
    LET defs == Definitions(d, FindAll(d, n, {"dt", "dd"}), <<>>)
    IN  Formatted(
          IF defs # <<>> THEN <<"DEFINITION_LIST:", SP>> \o Join(defs, SepRows)
          ELSE NoRecord,
          MarkWithDescendants(d, n))

\* _format_definition_list_comprehensive
FormatDefinitionListComprehensive(d, n) ==
    LET defs == Definitions(d, FindAll(d, n, {"dt", "dd"}), <<>>)
        pre == IF \E i \in 1..Len(defs) : Contains(defs[i], QMARK)
               THEN "FAQ:" ELSE "DEFINITION_LIST:"
    IN  Formatted(
          IF defs # <<>> THEN <<pre, SP>> \o Join(defs, SepRows) ELSE NoRecord,
          MarkWithDescendants(d, n))

\* _format_paragraph
FormatParagraph(d, n, proc) ==
    LET text == CleanText(GetText(d, n))
    IN  IF IsInsideProcessedContainer(d, n, proc)
        THEN Formatted(NoRecord, {})
        ELSE Formatted(
               IF text = <<>> THEN NoRecord
               ELSE IF "lead" \in d[n].cls THEN <<"LEAD:", SP>> \o text
               ELSE <<"CONTENT:", SP>> \o text,
               {GetElementId(d, n)})

FaqMarker == "templateFAQ"
AuthorMarker == "templateAuthorCard"

\* _format_container
FormatContainer(d, n, proc) ==
    IF IsInsideProcessedContainer(d, n, proc) \/ IsAlreadyProcessed(d, n, proc)
    THEN Formatted(NoRecord, {})
    ELSE IF "faq" \in d[n].cls \/ d[n].qa = FaqMarker
         THEN Formatted(<<"FAQ:", SP>> \o CleanText(GetText(d, n)),
                        MarkWithDescendants(d, n))
         ELSE Formatted(NoRecord, {})

\* Variant: the warning detection comes after the handling by tag.
FormatElementTagFirst(d, n, proc) ==
    IF IsAlreadyProcessed(d, n, proc) THEN Formatted(NoRecord, {})
    ELSE IF d[n].tag \in Headings THEN FormatHeading(d, n)
    ELSE IF d[n].tag = "table" THEN FormatTableComprehensive(d, n)
    ELSE IF d[n].tag \in {"ul", "ol"} THEN FormatListComprehensive(d, n)
    ELSE IF d[n].tag = "dl" THEN FormatDefinitionListComprehensive(d, n)
    ELSE IF d[n].tag = "p" THEN FormatParagraph(d, n, proc)
    ELSE IF IsWarningBlock(d, n) THEN FormatWarningBlock(d, n)
    ELSE IF d[n].tag \in {"div", "section"} THEN FormatContainer(d, n, proc)
    ELSE Formatted(NoRecord, {})

\* _format_element_comprehensive
FormatElementComprehensive(d, n, proc) ==
    IF IsAlreadyProcessed(d, n, proc) THEN Formatted(NoRecord, {})
    ELSE IF IsWarningBlock(d, n) THEN FormatWarningBlock(d, n)
    ELSE IF d[n].tag \in Headings THEN FormatHeading(d, n)
    ELSE IF d[n].tag = "table" THEN FormatTableComprehensive(d, n)
    ELSE IF d[n].tag \in {"ul", "ol"} THEN FormatListComprehensive(d, n)
    ELSE IF d[n].tag = "dl" THEN FormatDefinitionListComprehensive(d, n)
    ELSE IF d[n].tag = "p" THEN FormatParagraph(d, n, proc)
    ELSE IF d[n].tag \in {"div", "section"} THEN FormatContainer(d, n, proc)
    ELSE Formatted(NoRecord, {})


\* ------------------------------------------------------------------ inputs
Elem(tag, text, cls, qa) ==
    [tag |-> tag, parent |-> 0, text |-> text, cls |-> cls, qa |-> qa]

Plain(tag, text) ==
    Elem(tag, text, {}, "")

\* A document fragment is a sequence of nodes whose parents are indices
\* into the fragment (0: the place the fragment is put).
Shift(frag, off, par) ==
    [i \in 1..Len(frag) |->
        [frag[i] EXCEPT !.parent = IF @ = 0 THEN par ELSE @ + off]]

\* The fragments of frags one after the other, as siblings.
RECURSIVE Siblings(_)
Siblings(frags) ==
    IF frags = <<>> THEN <<>>
    ELSE LET rest == Siblings(SubSeq(frags, 1, Len(frags) - 1))
         IN  rest \o Shift(frags[Len(frags)], Len(rest), 0)

\* The element e with the fragments of kids as its children.
Under(e, kids) ==
    <<e>> \o Shift(Siblings(kids), 1, 1)

Leaf(e) ==
    <<e>>

\* Headings and paragraphs of a flat document.
FlatKinds ==
    { Plain("h2", <<"a">>), Plain("h2", <<"b">>), Plain("h3", <<"a">>),
      Plain("p", <<"a">>), Plain("p", <<"A">>) }

\* The blocks a nested document is made of.
HeadingBlocks ==
    { Leaf(Plain("h2", <<"a">>)),
      Leaf(Plain("h2", <<"b">>)),
      Leaf(Plain("h2", <<SP>>)),
      Leaf(Plain("h3", <<"a">>)) }

ParagraphBlocks ==
    { Leaf(Plain("p", <<"a">>)),
      Leaf(Plain("p", <<"b">>)),
      Leaf(Plain("p", <<"A">>)),
      Leaf(Plain("p", <<SP>>)),
      Under(Plain("p", <<"a">>), <<Leaf(Plain("b", <<>>))>>) }

WarningBlocks ==
    { Leaf(Plain("p", <<WarnPhrase>>)),
      Leaf(Elem("p", <<>>, {"warning"}, "")),
      Under(Plain("div", <<>>),
            <<Leaf(Plain("p", <<WarnPhrase>>)), Leaf(Plain("p", <<"a">>))>>),
      Under(Plain("div", <<>>),
            <<Leaf(Elem("p", <<"a">>, {"warning"}, "")), Leaf(Plain("p", <<"b">>))>>),
      Under(Elem("div", <<>>, {"alert"}, ""),
            <<Leaf(Plain("h2", <<"a">>)), Leaf(Plain("p", <<"b">>))>>) }

CompositeBlocks ==
    { Under(Plain("ul", <<>>),
            <<Leaf(Plain("li", <<"a">>)),
              Under(Plain("li", <<>>), <<Leaf(Plain("p", <<"b">>))>>)>>),
      Under(Plain("ol", <<>>), <<Leaf(Plain("li", <<SP>>))>>),
      Under(Plain("table", <<>>),
            <<Under(Plain("tr", <<>>),
                    <<Under(Plain("td", <<>>), <<Leaf(Plain("p", <<"a">>))>>)>>)>>),
      Under(Plain("table", <<>>),
            <<Under(Plain("tr", <<>>), <<Leaf(Plain("th", <<"a">>))>>)>>),
      Under(Plain("dl", <<>>),
            <<Leaf(Plain("dt", <<"a">>)),
              Under(Plain("dd", <<>>), <<Leaf(Plain("p", <<"b">>))>>)>>) }

ContainerBlocks ==
    { Under(Elem("div", <<>>, {"faq"}, ""), <<Leaf(Plain("p", <<"a">>))>>),
      Leaf(Elem("div", <<>>, {"faq"}, "")),
      Under(Elem("section", <<>>, {}, FaqMarker), <<Leaf(Plain("p", <<"a">>))>>),
      Under(Elem("section", <<>>, {}, AuthorMarker), <<Leaf(Plain("b", <<"a">>))>>),
      Under(Elem("section", <<>>, {}, AuthorMarker), <<Leaf(Plain("p", <<"b">>))>>),
      Under(Plain("article", <<>>),
            <<Leaf(Plain("h2", <<"a">>)), Leaf(Plain("p", <<"b">>))>>),
      Under(Plain("article", <<>>), <<Leaf(Plain("p", <<"a">>))>>),
      Leaf(Plain("article", <<>>)),
      Under(Plain("nav", <<>>), <<Leaf(Plain("p", <<"a">>))>>) }

Blocks ==
    HeadingBlocks \cup ParagraphBlocks \cup WarningBlocks \cup CompositeBlocks
      \cup ContainerBlocks

\* The documents of at most n blocks of a set.
RECURSIVE BlockDocs(_, _)
BlockDocs(blocks, n) ==
    IF n = 0 THEN { <<>> }
    ELSE LET prev == BlockDocs(blocks, n - 1)
         IN  prev \cup { Siblings(<<d, b>>) : d \in prev, b \in blocks }

\* An article of at most n headings and paragraphs.
FlatDocs(n) ==
    { Under(Plain("article", <<>>), <<d>>) :
        d \in BlockDocs({ Leaf(k) : k \in FlatKinds }, n) }

Docs ==
    BlockDocs(Blocks, MaxBlocks) \cup FlatDocs(MaxFlat)

\* ------------------------------------------------------------------ formatting inputs
\* The shapes the formatters tell apart.  In the tables and lists "A", "B"
\* stand for the labels Risk, Level (or the items A, B) and "a", "b" for the
\* values Low, 3.
Cell(tag, text) ==
    Leaf(Plain(tag, text))

Row(cells) ==
    Under(Plain("tr", <<>>), cells)

Table(rows) ==
    Under(Plain("table", <<>>), rows)

List(tag, items) ==
    Under(Plain(tag, <<>>), items)

HeadingShapes ==
    { Leaf(Plain("h1", <<"a">>)),
      Leaf(Plain("h2", <<"H2:", SP, "a">>)),
      Leaf(Plain("h2", <<"H2:", SP, "H2:", SP, "a">>)) }

ParagraphShapes ==
    { Leaf(Plain("p", <<"a", NL, SP, SP, "b">>)),
      Under(Plain("p", <<"a">>), <<Leaf(Plain("b", <<"b">>))>>),
      Leaf(Elem("p", <<"a">>, {"lead"}, "")) }

\* A banner (sign, phrase, sign) at the head of the text, and in its middle.
BannerShapes ==
    { Leaf(Plain("p", <<EMO, SP, WarnPhrase, SP, EMO, SP, "a">>)),
      Leaf(Plain("p", <<"a", SP, EMO, SP, WarnPhrase, SP, EMO, SP, "b">>)) }

\* The table with the headers (Risk, Level) and the one row (Low, 3).
RiskLevelTable ==
    Table(<<Row(<<Cell("th", <<"A">>), Cell("th", <<"B">>)>>),
            Row(<<Cell("td", <<"a">>), Cell("td", <<"b">>)>>)>>)

TableShapes ==
    { RiskLevelTable,
      Table(<<Row(<<Cell("th", <<"A">>), Cell("th", <<"B">>)>>),
              Row(<<Cell("td", <<"a">>)>>)>>),
      Table(<<Row(<<Cell("th", <<"A">>), Cell("th", <<"B">>)>>),
              Row(<<Cell("td", <<SP>>), Cell("td", <<"b">>)>>),
              Row(<<Cell("td", <<>>), Cell("td", <<>>)>>)>>),
      Table(<<Row(<<Cell("td", <<"a">>), Cell("td", <<"b">>)>>),
              Row(<<Cell("td", <<"b">>)>>)>>),
      Table(<<Row(<<Under(Plain("th", <<>>), <<Leaf(Plain("p", <<"a">>))>>)>>)>>),
      Table(<<Row(<<Cell("td", <<SP>>)>>)>>) }

\* The unordered list with the items A, B.
ListAB ==
    List("ul", <<Cell("li", <<"A">>), Cell("li", <<"B">>)>>)

ListShapes ==
    { ListAB,
      List("ol", <<Cell("li", <<"a">>), Cell("li", <<SP>>), Cell("li", <<"b">>)>>),
      List("ul", <<Under(Plain("li", <<"a">>),
                         <<List("ul", <<Cell("li", <<"b">>)>>)>>)>>) }

DefinitionListShapes ==
    { List("dl", <<Cell("dt", <<"a">>), Cell("dd", <<"b">>)>>),
      List("dl", <<Cell("dt", <<"a">>), Cell("dd", <<"b", QMARK>>)>>),
      List("dl", <<Cell("dt", <<"a", QMARK>>), Cell("dd", <<"b">>)>>),
      List("dl", <<Cell("dt", <<"a">>), Cell("dt", <<"b">>), Cell("dd", <<"b">>),
                   Cell("dt", <<"a">>)>>),
      List("dl", <<Cell("dt", <<"a">>)>>),
      List("dl", <<Cell("dt", <<"a", QMARK>>), Cell("dt", <<"b">>),
                   Cell("dd", <<"b">>)>>) }

FormatBlocks ==
    HeadingShapes \cup ParagraphShapes \cup BannerShapes \cup TableShapes
      \cup ListShapes \cup DefinitionListShapes

\* The documents of at most n shapes, bare and inside an article.
FormatDocs(n) ==
    BlockDocs(FormatBlocks, n)
      \cup { Under(Plain("article", <<>>), <<d>>) : d \in BlockDocs(FormatBlocks, n) }

\* The blocks that tell the structure of a page apart: headings that open
\* chunks, paragraphs whose texts part only after the first 100 characters,
\* marked sections, a div with a warning paragraph among its children, and an
\* article that makes the rest of the page lie outside the main content area.
StructureBlocks ==
    { Leaf(Plain("h2", <<"b">>)),
      Leaf(Plain("p", <<"a">>)),
      Leaf(Plain("p", <<LONG, "a">>)),
      Leaf(Plain("p", <<LONG, "b">>)),
      Under(Elem("section", <<>>, {}, AuthorMarker), <<Leaf(Plain("p", <<"b">>))>>),
      Under(Elem("section", <<>>, {}, FaqMarker), <<Leaf(Plain("p", <<"a">>))>>),
      Under(Plain("div", <<>>),
            <<Leaf(Plain("p", <<WarnPhrase>>)), Leaf(Plain("h2", <<"b">>)),
              Leaf(Plain("p", <<"a">>))>>),
      Under(Plain("article", <<>>), <<Leaf(Plain("p", <<"a">>))>>) }

StructureDocs(n) ==
    BlockDocs(StructureBlocks, n)

\* The documents of the calls that follow one another on one extractor, and
\* of the calls that run at the same time.
CallDocs ==
    { <<>>,
      Siblings(<<Leaf(Plain("h2", <<"a">>)), Leaf(Plain("p", <<"b">>))>>),
      Siblings(<<Leaf(Plain("p", <<"a">>)), Leaf(Plain("h2", <<"a">>)),
                 Leaf(Plain("p", <<"a">>)), Leaf(Plain("h2", <<"b">>))>>),
      Siblings(<<List("ul", <<Cell("li", <<"a">>)>>), Leaf(Plain("p", <<"a">>))>>) }

\* ------------------------------------------------------------------ state
VARIABLES
    html_content,           \* the argument: <<document>>, or <<>> for a value that is no string
    pc,                     \* where the running call stands
    soup,                   \* the parsed tree after _preprocess_soup
    elements,               \* the find_all list the traversal iterates over
    pos,                    \* index of the next element of that list
    processed_elements,     \* self.processed_elements
    current_h2_section,     \* self.current_h2_section: <<>> for None, else <<record>>
    big_chunks,             \* self.big_chunks
    pre_h2_content,         \* local of _extract_with_direct_chunking
    current_chunk_content,  \* local of _extract_with_direct_chunking
    chunk_index,            \* local of _extract_with_direct_chunking
    result,                 \* <<>> while running, else <<the returned triple>>
    content_parts,          \* ContentExtractor: the list _extract_structured_content returns
    org_pos,                \* _organize_by_h2: index of the next part
    org_big_chunks,         \* _organize_by_h2: big_chunks
    org_current_chunk,      \* _organize_by_h2: current_chunk
    org_chunk_index,        \* _organize_by_h2: chunk_index
    emitted,                \* history: the records of the main traversal, with their nodes
    special,                \* history: the records the special sections yielded
    calls,                  \* history: the finished calls, each with its input and result
    other,                  \* <<>>, or <<the invocation of the thread that is not running>>
    small_chunks,           \* the list _deduplicate_content is given
    deduplicated,           \* _deduplicate_content: what each application in turn returned
    fed,                    \* how many content parts the chunking loop of the HTML variant was given
    secrets,                \* st.secrets["auth"]["users"]: <<>> when not configured, else <<users>>
    session_state,          \* st.session_state: the keys that are set, with their values
    current_user,           \* <<>>, or <<what get_current_user returned in this script run>>
    log                     \* the lines the authentication module gave safe_log

vars ==
    <<html_content, pc, soup, elements, pos, processed_elements, current_h2_section,
      big_chunks, pre_h2_content, current_chunk_content, chunk_index, result,
      content_parts, org_pos, org_big_chunks, org_current_chunk, org_chunk_index,
      emitted, special, calls, other, small_chunks, deduplicated, fed, secrets,
      session_state, current_user, log>>

html_vars ==
    <<soup, elements, pos, processed_elements, current_h2_section, big_chunks,
      pre_h2_content, current_chunk_content, chunk_index>>

url_vars ==
    <<content_parts, org_pos, org_big_chunks, org_current_chunk, org_chunk_index>>

call_vars ==
    <<calls, other>>

dedup_vars ==
    <<small_chunks, deduplicated>>

auth_vars ==
    <<secrets, session_state, current_user, log>>

\* What the extraction of a document leaves alone.
aux_vars ==
    <<dedup_vars, fed, auth_vars>>

\* None is <<>>, a value v is <<v>>.
None == <<>>

\* A dict (or the session state) with no key.
NoKeys ==
    [k \in {} |-> None]

\* Nothing but an extraction is going on.
AuxInit ==
    /\ small_chunks = <<>>
    /\ deduplicated = <<>>
    /\ fed = 0
    /\ secrets = <<>>
    /\ session_state = NoKeys
    /\ current_user = <<>>
    /\ log = <<>>

NotAString == <<>>

BigChunk(index, small) ==
    [big_chunk_index |-> index, small_chunks |-> small]

\* The returned (success, content, error); None is <<>>, a value v is <<v>>.
Triple(success, content, error) ==
    [success |-> success, content |-> content, error |-> error]

\* The attributes and locals of an extractor that has not been called, and
\* the histories with nothing in them.
ExtractorIdle ==
    /\ soup = <<>>
    /\ elements = <<>>
    /\ pos = 1
    /\ processed_elements = {}
    /\ current_h2_section = <<>>
    /\ big_chunks = <<>>
    /\ pre_h2_content = <<>>
    /\ current_chunk_content = <<>>
    /\ chunk_index = 1
    /\ result = <<>>
    /\ content_parts = <<>>
    /\ org_pos = 1
    /\ org_big_chunks = <<>>
    /\ org_current_chunk = <<>>
    /\ org_chunk_index = 1
    /\ emitted = <<>>
    /\ special = <<>>
    /\ calls = <<>>
    /\ other = <<>>

\* A new extractor about to be called with one of the inputs.
InitFrom(inputs) ==
    /\ html_content \in inputs
    /\ pc = "idle"
    /\ ExtractorIdle
    /\ AuxInit

Init ==
    InitFrom({ <<d>> : d \in Docs } \cup { NotAString })

\* A new extractor about to be called with a document of the formatting catalogue.
InitFormat ==
    InitFrom({ <<d>> : d \in FormatDocs(MaxFormatBlocks) })

\* The lists of at most n records of a set.
RECURSIVE RecordLists(_, _)
RecordLists(records, n) ==
    IF n = 0 THEN { <<>> }
    ELSE LET prev == RecordLists(records, n - 1)
         IN  prev \cup { Append(l, r) : l \in prev, r \in records }

\* Records the formatters give that the final pass tells apart or not: two
\* that differ in case only, one of another kind, and the record of an FAQ
\* container without text, which ends in the blank after its prefix.
DedupRecords ==
    { <<"CONTENT:", SP, "a">>, <<"CONTENT:", SP, "A">>, <<"H2:", SP, "b">>, <<"FAQ:", SP>> }

\* Formatted records the organizers tell apart: two H2 headings, a heading of
\* another level and a paragraph.
OrganizerRecords ==
    { <<"H2:", SP, "a">>, <<"H2:", SP, "b">>, <<"H3:", SP, "a">>, <<"CONTENT:", SP, "a">> }

\* Both organizers about to be given one list of formatted records:
\* _organize_by_h2 as its argument, the chunking loop of a new
\* HTMLContentExtractor record by record.
InitOrganizers ==
    /\ content_parts \in RecordLists(OrganizerRecords, MaxRecords)
    /\ pc = "organize"
    /\ html_content = NotAString
    /\ soup = <<>>
    /\ elements = <<>>
    /\ pos = 1
    /\ processed_elements = {}
    /\ current_h2_section = <<>>
    /\ big_chunks = <<>>
    /\ pre_h2_content = <<>>
    /\ current_chunk_content = <<>>
    /\ chunk_index = 1
    /\ result = <<>>
    /\ org_pos = 1
    /\ org_big_chunks = <<>>
    /\ org_current_chunk = <<>>
    /\ org_chunk_index = 1
    /\ emitted = <<>>
    /\ special = <<>>
    /\ calls = <<>>
    /\ other = <<>>
    /\ AuxInit

\* _deduplicate_content about to be called with a list of records.
InitDedup ==
    /\ small_chunks \in RecordLists(DedupRecords, MaxRecords)
    /\ deduplicated = <<>>
    /\ pc = "dedup"
    /\ html_content = NotAString
    /\ ExtractorIdle
    /\ fed = 0
    /\ secrets = <<>>
    /\ session_state = NoKeys
    /\ current_user = <<>>
    /\ log = <<>>

\* The users of the setup instructions: admin = "password", user2 = "pass2".
Users ==
    [u \in {"admin", "user2"} |-> IF u = "admin" THEN "password" ELSE "pass2"]

\* What is typed into the login form.
TypedUsernames == {"", "admin", "user2", "eve"}
TypedPasswords == {"", "password", "pass2"}

\* A browser session that has not run the script yet; the secrets hold the
\* users or are not configured.
InitAuth ==
    /\ secrets \in { <<>>, <<Users>> }
    /\ session_state = NoKeys
    /\ current_user = <<>>
    /\ log = <<>>
    /\ pc = "auth"
    /\ html_content = NotAString
    /\ ExtractorIdle
    /\ small_chunks = <<>>
    /\ deduplicated = <<>>
    /\ fed = 0

\* A new extractor about to be called with a document of the structure catalogue.
InitStructure ==
    InitFrom({ <<d>> : d \in StructureDocs(MaxStructureBlocks) })

\* What a caller of HTMLContentExtractor.extract_content passes in the runs
\* with several calls.
CallInputs ==
    { <<d>> : d \in CallDocs } \cup { NotAString }

InitCalls ==
    InitFrom(CallInputs)

\* ------------------------------------------------------------------ HTMLContentExtractor
SignificantTags ==
    Headings \cup {"p", "table", "ul", "ol", "dl", "section", "div"}

\* soup.find('article') or soup.find('main') or soup.find('body') or soup
MainArea(d) ==
    IF Find(d, 0, {"article"}) # 0 THEN Find(d, 0, {"article"})
    ELSE IF Find(d, 0, {"main"}) # 0 THEN Find(d, 0, {"main"})
    ELSE IF Find(d, 0, {"body"}) # 0 THEN Find(d, 0, {"body"})
    ELSE 0

ParseErrorMessage == "HTML parsing error: object of type 'NoneType' has no len()"

\* Variant: the handler hands out the chunks built so far.
HandleExceptionPartial(error_msg) ==
    Triple(FALSE, <<[big_chunks |-> big_chunks]>>, <<error_msg>>)

\* The except clause of extract_content: what it returns for the message.
HandleException(error_msg) ==
    Triple(FALSE, <<>>, <<error_msg>>)

\* Variant: the processed set is not cleared at the start of a call.
StartNoReset ==
    /\ pc = "idle"
    /\ IF html_content = NotAString
       THEN /\ result' = <<HandleException(ParseErrorMessage)>>
            /\ pc' = "done"
            /\ UNCHANGED <<soup, elements, pos, processed_elements, current_h2_section,
                           big_chunks, pre_h2_content, current_chunk_content, chunk_index>>
       ELSE /\ soup' = PreprocessSoup(html_content[1])
            /\ big_chunks' = <<>>
            /\ current_h2_section' = <<>>
            /\ pre_h2_content' = <<>>
            /\ current_chunk_content' = <<>>
            /\ chunk_index' = 1
            /\ elements' = FindAll(soup', MainArea(soup'), SignificantTags)
            /\ pos' = 1
            /\ pc' = "walk"
            /\ UNCHANGED <<result, processed_elements>>
    /\ UNCHANGED <<html_content, url_vars, emitted, special, call_vars, aux_vars>>

\* extract_content up to the traversal: len() of a value that is no string
\* raises inside the try block and the handler returns the failure triple;
\* otherwise parse, preprocess, reset the state and list the elements.
Start ==
    /\ pc = "idle"
    /\ IF html_content = NotAString
       THEN /\ result' = <<HandleException(ParseErrorMessage)>>
            /\ pc' = "done"
            /\ UNCHANGED <<soup, elements, pos, processed_elements, current_h2_section,
                           big_chunks, pre_h2_content, current_chunk_content, chunk_index>>
       ELSE /\ soup' = PreprocessSoup(html_content[1])
            /\ processed_elements' = {}
            /\ big_chunks' = <<>>
            /\ current_h2_section' = <<>>
            /\ pre_h2_content' = <<>>
            /\ current_chunk_content' = <<>>
            /\ chunk_index' = 1
            /\ elements' = FindAll(soup', MainArea(soup'), SignificantTags)
            /\ pos' = 1
            /\ pc' = "walk"
            /\ UNCHANGED result
    /\ UNCHANGED <<html_content, url_vars, emitted, special, call_vars, aux_vars>>

\* Variant: the first H2 does not save the records that precede it.
ChunkRecordLosesPre(rec) ==
    IF StartsWith(rec, <<"H2:">>)
    THEN /\ IF current_chunk_content # <<>>
            THEN /\ big_chunks' = Append(big_chunks, BigChunk(chunk_index, current_chunk_content))
                 /\ chunk_index' = chunk_index + 1
            ELSE UNCHANGED <<big_chunks, chunk_index>>
         /\ current_chunk_content' = <<rec>>
         /\ current_h2_section' = <<rec>>
         /\ UNCHANGED pre_h2_content
    ELSE /\ IF current_h2_section = <<>>
            THEN /\ pre_h2_content' = Append(pre_h2_content, rec)
                 /\ UNCHANGED current_chunk_content
            ELSE /\ current_chunk_content' = Append(current_chunk_content, rec)
                 /\ UNCHANGED pre_h2_content
         /\ UNCHANGED <<big_chunks, chunk_index, current_h2_section>>

\* Variant: a record that is no H2 goes to the front of its buffer.
ChunkRecordPrepends(rec) ==
    IF StartsWith(rec, <<"H2:">>)
    THEN /\ IF current_chunk_content # <<>>
            THEN /\ big_chunks' = Append(big_chunks, BigChunk(chunk_index, current_chunk_content))
                 /\ chunk_index' = chunk_index + 1
            ELSE IF pre_h2_content # <<>>
            THEN /\ big_chunks' = Append(big_chunks, BigChunk(chunk_index, pre_h2_content))
                 /\ chunk_index' = chunk_index + 1
            ELSE UNCHANGED <<big_chunks, chunk_index>>
         /\ current_chunk_content' = <<rec>>
         /\ current_h2_section' = <<rec>>
         /\ UNCHANGED pre_h2_content
    ELSE /\ IF current_h2_section = <<>>
            THEN /\ pre_h2_content' = <<rec>> \o pre_h2_content
                 /\ UNCHANGED current_chunk_content
            ELSE /\ current_chunk_content' = <<rec>> \o current_chunk_content
                 /\ UNCHANGED pre_h2_content
         /\ UNCHANGED <<big_chunks, chunk_index, current_h2_section>>

\* The chunking of one formatted record (the body of the loop after the
\* record is known not to be empty).
ChunkRecord(rec) ==
    IF StartsWith(rec, <<"H2:">>)
    THEN /\ IF current_chunk_content # <<>>
            THEN /\ big_chunks' = Append(big_chunks, BigChunk(chunk_index, current_chunk_content))
                 /\ chunk_index' = chunk_index + 1
            ELSE IF pre_h2_content # <<>>
            THEN /\ big_chunks' = Append(big_chunks, BigChunk(chunk_index, pre_h2_content))
                 /\ chunk_index' = chunk_index + 1
            ELSE UNCHANGED <<big_chunks, chunk_index>>
         /\ current_chunk_content' = <<rec>>
         /\ current_h2_section' = <<rec>>
         /\ UNCHANGED pre_h2_content
    ELSE /\ IF current_h2_section = <<>>
            THEN /\ pre_h2_content' = Append(pre_h2_content, rec)
                 /\ UNCHANGED current_chunk_content
            ELSE /\ current_chunk_content' = Append(current_chunk_content, rec)
                 /\ UNCHANGED pre_h2_content
         /\ UNCHANGED <<big_chunks, chunk_index, current_h2_section>>

\* One iteration of the loop of _extract_with_direct_chunking.
Visit ==
    /\ pc = "walk"
    /\ pos <= Len(elements)
    /\ LET n == elements[pos]
           skip == \/ IsAlreadyProcessed(soup, n, processed_elements)
                   \/ IsInsideProcessedContainer(soup, n, processed_elements)
           f == FormatElementComprehensive(soup, n, processed_elements)
       IN  IF skip
           THEN UNCHANGED <<processed_elements, big_chunks, chunk_index, pre_h2_content,
                            current_chunk_content, current_h2_section, emitted>>
           ELSE /\ processed_elements' = processed_elements \cup f.marks
                /\ IF f.rec = NoRecord
                   THEN UNCHANGED <<big_chunks, chunk_index, pre_h2_content,
                                    current_chunk_content, current_h2_section, emitted>>
                   ELSE /\ ChunkRecord(f.rec)
                        /\ emitted' = Append(emitted, [node |-> n, rec |-> f.rec])
    /\ pos' = pos + 1
    /\ UNCHANGED <<html_content, pc, soup, elements, result, url_vars, special, call_vars, aux_vars>>

\* Variant: records that no H2 follows are not flushed.
WithFinalChunkNoPre ==
    IF current_chunk_content # <<>>
    THEN Append(big_chunks, BigChunk(chunk_index, current_chunk_content))
    ELSE big_chunks

\* Variant: the final chunk always gets index 1.
WithFinalChunkIndexOne ==
    IF current_chunk_content # <<>>
    THEN Append(big_chunks, BigChunk(1, current_chunk_content))
    ELSE IF pre_h2_content # <<>>
    THEN Append(big_chunks, BigChunk(1, pre_h2_content))
    ELSE big_chunks

\* Variant: the current buffer is made a chunk even when it is empty.
WithFinalChunkAlways ==
    Append(big_chunks, BigChunk(chunk_index, current_chunk_content))

\* The final chunk of _extract_with_direct_chunking.
WithFinalChunk ==
    IF current_chunk_content # <<>>
    THEN Append(big_chunks, BigChunk(chunk_index, current_chunk_content))
    ELSE IF pre_h2_content # <<>>
    THEN Append(big_chunks, BigChunk(1, pre_h2_content))
    ELSE big_chunks

\* chunks with rec appended to the small chunks of the last one
AppendToLast(chunks, rec) ==
    [chunks EXCEPT ![Len(chunks)].small_chunks = Append(@, rec)]

\* Variant: the record of a special section makes a big chunk of its own.
SpecialSectionNewChunk(st, marker, prefix) ==
    LET sec == SelectSeq(FindAll(soup, 0, {"section"}), LAMBDA m : soup[m].qa = marker)
        n == sec[1]
        text == CleanText(GetText(soup, n))
    IN  IF sec # <<>> /\ ~IsAlreadyProcessed(soup, n, st.proc)
        THEN [chunks |-> IF text # <<>> /\ st.chunks # <<>>
                         THEN Append(st.chunks,
                                     BigChunk(Len(st.chunks) + 1, <<<<prefix, SP>> \o text>>))
                         ELSE st.chunks,
              proc |-> st.proc \cup {GetElementId(soup, n)},
              found |-> IF text # <<>>
                        THEN Append(st.found, <<prefix, SP>> \o text)
                        ELSE st.found]
        ELSE st

\* One special section of _extract_special_sections: st is the chunk list,
\* the processed set and the records yielded so far.
SpecialSection(st, marker, prefix) ==
    LET sec == SelectSeq(FindAll(soup, 0, {"section"}), LAMBDA m : soup[m].qa = marker)
        n == sec[1]
        text == CleanText(GetText(soup, n))
    IN  IF sec # <<>> /\ ~IsAlreadyProcessed(soup, n, st.proc)
        THEN [chunks |-> IF text # <<>> /\ st.chunks # <<>>
                         THEN AppendToLast(st.chunks, <<prefix, SP>> \o text)
                         ELSE st.chunks,
              proc |-> st.proc \cup {GetElementId(soup, n)},
              found |-> IF text # <<>>
                        THEN Append(st.found, <<prefix, SP>> \o text)
                        ELSE st.found]
        ELSE st

\* _extract_special_sections
ExtractSpecialSections(chunks, proc) ==
    SpecialSection(
        SpecialSection([chunks |-> chunks, proc |-> proc, found |-> <<>>],
                       FaqMarker, "FAQ:"),
        AuthorMarker, "AUTHOR:")

\* The end of the traversal in _extract_with_direct_chunking: the final chunk.
Flush ==
    /\ pc = "walk"
    /\ pos > Len(elements)
    /\ big_chunks' = WithFinalChunk
    /\ pc' = "special"
    /\ UNCHANGED <<html_content, soup, elements, pos, processed_elements,
                   current_h2_section, pre_h2_content, current_chunk_content,
                   chunk_index, result, url_vars, emitted, special, call_vars, aux_vars>>

\* The call of _extract_special_sections that ends _extract_with_direct_chunking.
Special ==
    /\ pc = "special"
    /\ LET st == ExtractSpecialSections(big_chunks, processed_elements)
       IN  /\ big_chunks' = st.chunks
           /\ processed_elements' = st.proc
           /\ special' = st.found
    /\ pc' = "json"
    /\ UNCHANGED <<html_content, soup, elements, pos, current_h2_section, pre_h2_content,
                   current_chunk_content, chunk_index, result, url_vars, emitted,
                   call_vars, aux_vars>>

\* Variant: a record is kept although its normalized form was seen.
RECURSIVE DedupKeepsAll(_, _)
DedupKeepsAll(content_list, seen) ==
    IF content_list = <<>> THEN <<>>
    ELSE IF Strip(Head(content_list)) = <<>>
         THEN DedupKeepsAll(Tail(content_list), seen)
         ELSE <<Strip(Head(content_list))>> \o DedupKeepsAll(Tail(content_list), seen)

\* _deduplicate_content, with the set of normalized records seen so far
RECURSIVE Dedup(_, _)
Dedup(content_list, seen) ==
    IF content_list = <<>> THEN <<>>
    ELSE LET content == Head(content_list)
             normalized == Lower(Strip(content))
         IN  IF content = <<>> \/ Strip(content) = <<>>
             THEN Dedup(Tail(content_list), seen)
             ELSE IF normalized \notin seen
             THEN <<Strip(content)>> \o Dedup(Tail(content_list), seen \cup {normalized})
             ELSE Dedup(Tail(content_list), seen)

DeduplicateContent(content_list) ==
    Dedup(content_list, {})

\* A call of _deduplicate_content: on the list given, then on what the call
\* before returned.
Deduplicate ==
    /\ pc = "dedup"
    /\ Len(deduplicated) < 2
    /\ deduplicated' =
         Append(deduplicated,
                DeduplicateContent(IF deduplicated = <<>> THEN small_chunks
                                   ELSE deduplicated[Len(deduplicated)]))
    /\ UNCHANGED <<html_content, pc, html_vars, result, url_vars, emitted, special,
                   call_vars, small_chunks, fed, auth_vars>>

Placeholder == <<"CONTENT:", SP, "No content extracted">>

\* Variant: no placeholder chunk when there is no chunk.
FinalChunksNoPlaceholder(chunks) ==
    [i \in 1..Len(chunks) |->
       [chunks[i] EXCEPT !.small_chunks = DeduplicateContent(@)]]

\* The big chunks _create_final_json serialises.
FinalChunks(chunks) ==
    LET ensured == IF chunks = <<>> THEN <<BigChunk(1, <<Placeholder>>)>> ELSE chunks
    IN  [i \in 1..Len(ensured) |->
           [ensured[i] EXCEPT !.small_chunks = DeduplicateContent(@)]]

\* _create_final_json and the return of extract_content.  The JSON text is
\* kept as the value json.dumps is given.
CreateFinalJson ==
    /\ pc = "json"
    /\ big_chunks' = FinalChunks(big_chunks)
    /\ result' = <<Triple(TRUE, <<[big_chunks |-> big_chunks']>>, <<>>)>>
    /\ pc' = "done"
    /\ UNCHANGED <<html_content, soup, elements, pos, processed_elements,
                   current_h2_section, pre_h2_content, current_chunk_content,
                   chunk_index, url_vars, emitted, special, call_vars, aux_vars>>

\* The caller takes the result and calls extract_content again on the same
\* extractor: the attributes of the extractor stay as the finished call left
\* them.
NextCall ==
    /\ pc = "done"
    /\ other = <<>>
    /\ Len(calls) + 1 < MaxCalls
    /\ calls' = Append(calls, [input |-> html_content, result |-> result[1]])
    /\ html_content' \in CallInputs
    /\ pc' = "idle"
    /\ result' = <<>>
    /\ emitted' = <<>>
    /\ special' = <<>>
    /\ UNCHANGED <<html_vars, url_vars, other, aux_vars>>

\* The attributes of an extractor as __init__ sets them.
NewExtractor ==
    [processed_elements |-> {}, current_h2_section |-> <<>>, big_chunks |-> <<>>]

\* Variant: extract_html_content runs every call on one extractor that the
\* module keeps.
ModuleExtractor ==
    <<>>

\* The extractor extract_html_content runs a call on: <<the attributes>> of
\* one it makes for the call (<<>> stands for the extractor the other thread
\* uses).
OwnExtractor ==
    <<NewExtractor>>

\* A thread about to call: by "function" it calls extract_html_content(h),
\* by "method" extract_content(h) on the extractor the other thread uses too.
Invocation(h, entry) ==
    [html_content |-> h, pc |-> "idle", soup |-> <<>>, elements |-> <<>>, pos |-> 1,
     pre_h2_content |-> <<>>, current_chunk_content |-> <<>>, chunk_index |-> 1,
     result |-> <<>>, emitted |-> <<>>, special |-> <<>>, entry |-> entry,
     self |-> IF entry = "function" THEN OwnExtractor ELSE <<>>]

\* After a first call has run alone on a new extractor, two threads are about
\* to extract at the same time: one the same input again, on a new extractor,
\* the other an input of its own.
Fork ==
    /\ pc = "done"
    /\ calls = <<>>
    /\ other = <<>>
    /\ calls' = <<[input |-> html_content, result |-> result[1]]>>
    /\ pc' = "idle"
    /\ soup' = <<>>
    /\ elements' = <<>>
    /\ pos' = 1
    /\ processed_elements' = NewExtractor.processed_elements
    /\ current_h2_section' = NewExtractor.current_h2_section
    /\ big_chunks' = NewExtractor.big_chunks
    /\ pre_h2_content' = <<>>
    /\ current_chunk_content' = <<>>
    /\ chunk_index' = 1
    /\ result' = <<>>
    /\ emitted' = <<>>
    /\ special' = <<>>
    /\ \E h \in CallInputs, entry \in {"function", "method"} :
         other' = <<Invocation(h, entry)>>
    /\ UNCHANGED <<html_content, url_vars, aux_vars>>

\* The scheduler takes the running thread off and puts the other one on: the
\* locals of the call change places; the attributes of the extractor change
\* places when each thread has an extractor of its own and stay when the two
\* threads use one.
Switch ==
    /\ other # <<>>
    /\ html_content' = other[1].html_content
    /\ pc' = other[1].pc
    /\ soup' = other[1].soup
    /\ elements' = other[1].elements
    /\ pos' = other[1].pos
    /\ pre_h2_content' = other[1].pre_h2_content
    /\ current_chunk_content' = other[1].current_chunk_content
    /\ chunk_index' = other[1].chunk_index
    /\ result' = other[1].result
    /\ emitted' = other[1].emitted
    /\ special' = other[1].special
    /\ IF other[1].self = <<>>
       THEN UNCHANGED <<processed_elements, current_h2_section, big_chunks>>
       ELSE /\ processed_elements' = other[1].self[1].processed_elements
            /\ current_h2_section' = other[1].self[1].current_h2_section
            /\ big_chunks' = other[1].self[1].big_chunks
    /\ other' =
         <<[html_content |-> html_content, pc |-> pc, soup |-> soup,
            elements |-> elements, pos |-> pos, pre_h2_content |-> pre_h2_content,
            current_chunk_content |-> current_chunk_content,
            chunk_index |-> chunk_index, result |-> result, emitted |-> emitted,
            special |-> special, entry |-> other[1].entry,
            self |-> IF other[1].self = <<>> THEN <<>>
                     ELSE <<[processed_elements |-> processed_elements,
                             current_h2_section |-> current_h2_section,
                             big_chunks |-> big_chunks]>>]>>
    /\ UNCHANGED <<calls, url_vars, aux_vars>>

\* ------------------------------------------------------------------ ContentExtractor
\* element.get_text(separator=sep, strip=True): each string stripped, the
\* empty ones dropped, the rest joined by sep
GetTextSep(d, n, sep) ==
    LET ns == Sorted({n} \cup Descendants(d, n))
    IN  Join(SelectSeq([i \in 1..Len(ns) |-> Strip(d[ns[i]].text)],
                       LAMBDA t : t # <<>>), sep)

TextsSep(d, ns, sep) ==
    [i \in 1..Len(ns) |-> GetTextSep(d, ns[i], sep)]

\* One row of _format_table: the line it appends, <<>> for none.
UrlTableRowLine(headers, cells) ==
    IF cells # <<>> /\ (\E i \in 1..Len(cells) : cells[i] # <<>>)
    THEN IF headers # <<>> /\ Len(cells) = Len(headers)
         THEN LET keep == Sorted({i \in 1..Len(cells) : Strip(cells[i]) # <<>>})
              IN  Join([i \in 1..Len(keep) |->
                          headers[keep[i]] \o SepPair \o cells[keep[i]]], SepCells)
         ELSE Join(NonEmpty(cells), SepCells)
    ELSE <<>>

\* _format_table
FormatTable(d, n) ==
    LET header_row == Find(d, n, {"tr"})
        headers == IF header_row # 0 /\ Find(d, header_row, {"th"}) # 0
                   THEN TextsSep(d, FindAll(d, header_row, {"th"}), <<>>)
                   ELSE <<>>
        data_rows == FindAll(d, n, {"tr"})
        start_idx == IF headers # <<>> THEN 1 ELSE 0
        body == SubSeq(data_rows, start_idx + 1, Len(data_rows))
        lines == [i \in 1..Len(body) |->
                    UrlTableRowLine(headers,
                                    TextsSep(d, FindAll(d, body[i], {"td", "th"}), <<>>))]
        rows == SelectSeq(lines, LAMBDA l : l # <<>>)
    IN  IF rows # <<>> THEN <<"TABLE:", SP>> \o Join(rows, SepRows) ELSE NoRecord

\* _format_list
FormatList(d, n) ==
    LET texts == TextsSep(d, FindChildren(d, n, {"li"}), <<SP>>)
        items == SelectSeq(texts, LAMBDA t : t # <<>>)
        pre == IF d[n].tag = "ol" THEN "ORDERED_LIST:" ELSE "UNORDERED_LIST:"
    IN  IF items # <<>> THEN <<pre, SP>> \o Join(items, SepRows) ELSE NoRecord

\* The loop of _format_definition_list over the dt/dd elements.
RECURSIVE UrlDefinitions(_, _, _)
UrlDefinitions(d, elems, term) ==
    IF elems = <<>> THEN <<>>
    ELSE LET e == Head(elems)
         IN  IF d[e].tag = "dt"
             THEN UrlDefinitions(d, Tail(elems), <<GetTextSep(d, e, <<>>)>>)
             ELSE IF term # <<>> /\ term[1] # <<>>
                  THEN (IF GetTextSep(d, e, <<SP>>) # <<>>
                        THEN <<term[1] \o SepPair \o GetTextSep(d, e, <<SP>>)>>
                        ELSE <<>>) \o UrlDefinitions(d, Tail(elems), <<>>)
                  ELSE UrlDefinitions(d, Tail(elems), term)

\* _format_definition_list
FormatDefinitionList(d, n) ==
    LET defs == UrlDefinitions(d, FindAll(d, n, {"dt", "dd"}), <<>>)
    IN  IF defs # <<>> THEN <<"DEFINITION_LIST:", SP>> \o Join(defs, SepRows)
        ELSE NoRecord

\* _format_element
FormatElement(d, n) ==
    LET text == GetTextSep(d, n, <<NL>>)
    IN  IF text = <<>> THEN NoRecord
        ELSE IF d[n].tag \in Headings THEN <<HeadingPrefix(d[n].tag), SP>> \o text
        ELSE IF d[n].tag = "p"
             THEN IF "lead" \in d[n].cls THEN <<"LEAD:", SP>> \o text
                  ELSE <<"CONTENT:", SP>> \o text
        ELSE IF d[n].tag = "table" THEN FormatTable(d, n)
        ELSE IF d[n].tag \in {"ul", "ol"} THEN FormatList(d, n)
        ELSE IF d[n].tag = "dl" THEN FormatDefinitionList(d, n)
        ELSE NoRecord

\* <<prefix text>> when the element exists and has text, else nothing
Prefixed(d, n, prefix) ==
    IF n # 0 /\ GetTextSep(d, n, <<NL>>) # <<>>
    THEN << <<prefix, SP>> \o GetTextSep(d, n, <<NL>>) >>
    ELSE <<>>

\* soup.find('span', class_=['sub-title', 'd-block'])
FindSubtitle(d) ==
    LET found == SelectSeq(FindAll(d, 0, {"span"}),
                           LAMBDA m : d[m].cls \cap {"sub-title", "d-block"} # {})
    IN  IF found = <<>> THEN 0 ELSE found[1]

\* soup.find('p', class_='lead')
FindLead(d) ==
    LET found == SelectSeq(FindAll(d, 0, {"p"}), LAMBDA m : "lead" \in d[m].cls)
    IN  IF found = <<>> THEN 0 ELSE found[1]

\* soup.find('section', attrs={'data-qa': marker})
FindSection(d, marker) ==
    LET found == SelectSeq(FindAll(d, 0, {"section"}), LAMBDA m : d[m].qa = marker)
    IN  IF found = <<>> THEN 0 ELSE found[1]

ArticleTags ==
    Headings \cup {"p", "table", "ul", "ol", "dl"}

\* The elements tag.decompose() of roots leaves, in document order: the i-th
\* is the element of d that the node i of RemoveSubtrees(d, roots) was.
KeptNodes(d, roots) ==
    Sorted({n \in Nodes(d) : ({n} \cup Ancestors(d, n)) \cap roots = {}})

\* The records recs, each with the element n it was made from.
FromNode(n, recs) ==
    [i \in 1..Len(recs) |-> [node |-> n, rec |-> recs[i]]]

\* The content parts of _extract_structured_content, each with the element
\* of d it was made from.
StructuredRecords(d) ==
    LET h1 == Find(d, 0, {"h1"})
        subtitle == FindSubtitle(d)
        lead == FindLead(d)
        article == Find(d, 0, {"article"})
        tabs == IF article = 0 THEN {}
                ELSE {m \in Descendants(d, article) :
                        d[m].tag = "div" /\ "tab-content" \in d[m].cls}
        \* the soup once the tab-content sections of the article are decomposed
        cut == RemoveSubtrees(d, tabs)
        origin == KeptNodes(d, tabs)
        walk == IF article = 0 THEN <<>>
                ELSE FindAll(cut, Find(cut, 0, {"article"}), ArticleTags)
        formatted == [i \in 1..Len(walk) |->
                        [node |-> origin[walk[i]], rec |-> FormatElement(cut, walk[i])]]
        faq == FindSection(cut, FaqMarker)
        author == FindSection(cut, AuthorMarker)
        parts == FromNode(h1, Prefixed(d, h1, "H1:"))
                   \o FromNode(subtitle, Prefixed(d, subtitle, "SUBTITLE:"))
                   \o FromNode(lead, Prefixed(d, lead, "LEAD:"))
                   \o SelectSeq(formatted, LAMBDA e : e.rec # NoRecord)
                   \o FromNode(IF faq = 0 THEN 0 ELSE origin[faq],
                               Prefixed(cut, faq, "FAQ:"))
                   \o FromNode(IF author = 0 THEN 0 ELSE origin[author],
                               Prefixed(cut, author, "AUTHOR:"))
    IN  SelectSeq(parts, LAMBDA e : e.rec # <<>> /\ Strip(e.rec) # <<>>)

\* _extract_structured_content
ExtractStructuredContent(d) ==
    [i \in 1..Len(StructuredRecords(d)) |-> StructuredRecords(d)[i].rec]

\* What session.get and the size check can come to.
FetchOutcomes ==
    {"ok", "timeout", "connection_error", "http_error", "too_large"}

FetchError(outcome) ==
    CASE outcome = "timeout" -> "Request timeout after 30 seconds"
      [] outcome = "connection_error" -> "Connection error - unable to reach website"
      [] outcome = "http_error" -> "HTTP error: 404"
      [] outcome = "too_large" -> "Content too large"

\* ContentExtractor.extract_content up to _organize_by_h2; html_content is
\* the page the URL answers with.
UrlExtract ==
    /\ pc = "idle"
    /\ html_content # NotAString
    /\ \E outcome \in FetchOutcomes :
         IF outcome = "ok"
         THEN /\ content_parts' = ExtractStructuredContent(html_content[1])
              /\ org_big_chunks' = <<>>
              /\ org_current_chunk' = <<>>
              /\ org_chunk_index' = 1
              /\ org_pos' = 1
              /\ pc' = "organize"
              /\ UNCHANGED result
         ELSE /\ result' = <<Triple(FALSE, <<>>, <<FetchError(outcome)>>)>>
              /\ pc' = "url_done"
              /\ UNCHANGED url_vars
    /\ UNCHANGED <<html_content, html_vars, emitted, special, call_vars, aux_vars>>

\* Variant: an H2 part is added to the current chunk like any other part.
OrganizeStepNoSplit ==
    /\ pc = "organize"
    /\ org_pos <= Len(content_parts)
    /\ org_current_chunk' = Append(org_current_chunk, content_parts[org_pos])
    /\ org_pos' = org_pos + 1
    /\ UNCHANGED <<html_content, pc, html_vars, result, content_parts, org_big_chunks,
                   org_chunk_index, emitted, special, call_vars, aux_vars>>

\* One iteration of the loop of _organize_by_h2.
OrganizeStep ==
    /\ pc = "organize"
    /\ org_pos <= Len(content_parts)
    /\ LET part == content_parts[org_pos]
       IN  IF StartsWith(part, <<"H2:">>)
           THEN /\ IF org_current_chunk # <<>>
                   THEN /\ org_big_chunks' =
                             Append(org_big_chunks,
                                    BigChunk(org_chunk_index, org_current_chunk))
                        /\ org_chunk_index' = org_chunk_index + 1
                   ELSE UNCHANGED <<org_big_chunks, org_chunk_index>>
                /\ org_current_chunk' = <<part>>
           ELSE /\ org_current_chunk' = Append(org_current_chunk, part)
                /\ UNCHANGED <<org_big_chunks, org_chunk_index>>
    /\ org_pos' = org_pos + 1
    /\ UNCHANGED <<html_content, pc, html_vars, result, content_parts, emitted, special,
                   call_vars, aux_vars>>

\* The end of _organize_by_h2 and the return of extract_content.
OrganizeFinish ==
    /\ pc = "organize"
    /\ org_pos > Len(content_parts)
    /\ LET closed == IF org_current_chunk # <<>>
                     THEN Append(org_big_chunks,
                                 BigChunk(org_chunk_index, org_current_chunk))
                     ELSE org_big_chunks
       IN  org_big_chunks' = IF closed = <<>> /\ content_parts # <<>>
                             THEN <<BigChunk(1, content_parts)>>
                             ELSE closed
    /\ result' = <<Triple(TRUE, <<[big_chunks |-> org_big_chunks']>>, <<>>)>>
    /\ pc' = "url_done"
    /\ UNCHANGED <<html_content, html_vars, content_parts, org_pos, org_current_chunk,
                   org_chunk_index, emitted, special, call_vars, aux_vars>>

\* ------------------------------------------------------------------ authentication
\* st.session_state.get(key, default)
Get(state, key, default) ==
    IF key \in DOMAIN state THEN state[key] ELSE default

\* The session state as check_authentication and logout set it.
Session(authenticated, username) ==
    [authenticated |-> authenticated, username |-> username]

\* handle_login: the session state it leaves and the line it logs (<<>> for none).
HandleLogin(state, username, password, users) ==
    IF username = "" \/ password = ""
    THEN [state |-> state, line |-> <<>>]
    ELSE IF username \in DOMAIN users /\ password = users[username]
    THEN [state |-> Session(TRUE, <<username>>), line |-> <<<<"logged in", username>>>>]
    ELSE [state |-> state, line |-> <<<<"failed login", username>>>>]

\* show_login_form: without the users in the secrets it reports the
\* configuration error; else the form is shown and a pressed login button
\* leads to handle_login.
ShowLoginForm(state, login_button, username, password) ==
    IF secrets = <<>> \/ ~login_button
    THEN [state |-> state, line |-> <<>>]
    ELSE HandleLogin(state, username, password, secrets[1])

\* One run of the script up to the end of check_authentication: the session
\* state is initialised when it has no key; an authenticated session passes;
\* else the login form is shown.  A run starts with no local set.
CheckAuthentication ==
    /\ pc = "auth"
    /\ Len(log) < MaxLogLines
    /\ \E login_button \in BOOLEAN, username \in TypedUsernames, password \in TypedPasswords :
         LET initialised == IF "authenticated" \notin DOMAIN session_state
                            THEN Session(FALSE, None)
                            ELSE session_state
             shown == IF initialised.authenticated
                      THEN [state |-> initialised, line |-> <<>>]
                      ELSE ShowLoginForm(initialised, login_button, username, password)
         IN  /\ session_state' = shown.state
             /\ log' = log \o shown.line
    /\ current_user' = <<>>
    /\ UNCHANGED <<html_content, pc, html_vars, result, url_vars, emitted, special,
                   call_vars, dedup_vars, fed, secrets>>

\* The logout button of main, which an authenticated run shows: logout(),
\* then the script is run again.
Logout ==
    /\ pc = "auth"
    /\ Len(log) < MaxLogLines
    /\ Get(session_state, "authenticated", FALSE)
    /\ log' = Append(log, <<"logged out", Get(session_state, "username", <<"Unknown">>)>>)
    /\ session_state' = Session(FALSE, None)
    /\ current_user' = <<>>
    /\ UNCHANGED <<html_content, pc, html_vars, result, url_vars, emitted, special,
                   call_vars, dedup_vars, fed, secrets>>

\* get_current_user, as main and create_header call it.
GetCurrentUser ==
    /\ pc = "auth"
    /\ current_user' = <<Get(session_state, "username", <<"Anonymous">>)>>
    /\ UNCHANGED <<html_content, pc, html_vars, result, url_vars, emitted, special,
                   call_vars, dedup_vars, fed, secrets, session_state, log>>

NextAuth ==
    \/ CheckAuthentication
    \/ Logout
    \/ GetCurrentUser

\* A browser session of the tool: script runs with logins, logouts and calls
\* of get_current_user.
SpecAuth ==
    InitAuth /\ [][NextAuth]_vars

Next ==
    \/ Start
    \/ Visit
    \/ Flush
    \/ Special
    \/ CreateFinalJson
    \/ UrlExtract
    \/ OrganizeStep
    \/ OrganizeFinish

Spec ==
    Init /\ [][Next]_vars

\* The same program on the documents of the formatting catalogue.
SpecFormat ==
    InitFormat /\ [][Next]_vars

\* The same program on the documents of the structure catalogue.
SpecStructure ==
    InitStructure /\ [][Next]_vars

\* The chunking loop of _extract_with_direct_chunking given the next of the
\* content parts as the formatted record of an element (lines 124-150).
Feed ==
    /\ pc = "url_done"
    /\ fed < Len(content_parts)
    /\ ChunkRecord(content_parts[fed + 1])
    /\ fed' = fed + 1
    /\ UNCHANGED <<html_content, pc, soup, elements, pos, processed_elements, result,
                   url_vars, emitted, special, call_vars, dedup_vars, auth_vars>>

\* The end of that loop: the final chunk (lines 152-162).
FeedFinish ==
    /\ pc = "url_done"
    /\ fed = Len(content_parts)
    /\ big_chunks' = WithFinalChunk
    /\ pc' = "fed"
    /\ UNCHANGED <<html_content, soup, elements, pos, processed_elements,
                   current_h2_section, pre_h2_content, current_chunk_content,
                   chunk_index, result, url_vars, emitted, special, call_vars, aux_vars>>

\* One list of formatted records given to _organize_by_h2 and then, record
\* by record, to the chunking loop of the HTML variant.
NextOrganizers ==
    \/ OrganizeStep
    \/ OrganizeFinish
    \/ Feed
    \/ FeedFinish

SpecOrganizers ==
    InitOrganizers /\ [][NextOrganizers]_vars

\* _deduplicate_content applied to a list of records, and to its own result.
NextDedup ==
    \/ Deduplicate

SpecDedup ==
    InitDedup /\ [][NextDedup]_vars

\* One HTMLContentExtractor called several times, one call after the other.
NextCalls ==
    \/ Start
    \/ Visit
    \/ Flush
    \/ Special
    \/ CreateFinalJson
    \/ NextCall

SpecCalls ==
    InitCalls /\ [][NextCalls]_vars

\* A call that runs alone, then two calls that two threads run at the same
\* time, their steps interleaved.
NextThreads ==
    \/ Start
    \/ Visit
    \/ Flush
    \/ Special
    \/ CreateFinalJson
    \/ Fork
    \/ Switch

SpecThreads ==
    InitCalls /\ [][NextThreads]_vars


\* ------------------------------------------------------------------ properties
Recs(e) ==
    [i \in 1..Len(e) |-> e[i].rec]

IsH2(rec) ==
    StartsWith(rec, <<"H2:">>)

H2Count(recs) ==
    Cardinality({i \in 1..Len(recs) : IsH2(recs[i])})

\* All small chunks, in big-chunk order.
SmallChunks(chunks) ==
    Concat([i \in 1..Len(chunks) |-> chunks[i].small_chunks])

HtmlSucceeded ==
    pc = "done" /\ result[1].success

UrlSucceeded ==
    pc = "url_done" /\ result[1].success

\* k chunks for k H2 records, and one more when a record precedes the first H2
ExpectedChunks(recs) ==
    H2Count(recs) + (IF recs # <<>> /\ ~IsH2(recs[1]) THEN 1 ELSE 0)

\* C1: when the chunking loop has ended, the number of big chunks is the
\* number k of records that start with H2:, plus one exactly when some record
\* precedes the first H2 record; in both organizers.
C1_ChunkCount ==
    /\ pc = "special" => Len(big_chunks) = ExpectedChunks(Recs(emitted))
    /\ UrlSucceeded => Len(org_big_chunks) = ExpectedChunks(content_parts)

C1_Witness ==
    /\ pc = "special"
    /\ H2Count(Recs(emitted)) = 2
    /\ ~IsH2(emitted[1].rec)
    /\ Len(big_chunks) = 3

\* C2 (as amended): when the chunking loop has ended, and before the special
\* sections and the final deduplication pass, the small chunks of the big
\* chunks, concatenated in chunk order, are exactly the flat record sequence;
\* in both organizers.
C2_PartitionAfterChunking ==
    /\ pc = "special" => SmallChunks(big_chunks) = Recs(emitted)
    /\ UrlSucceeded => SmallChunks(org_big_chunks) = content_parts

C2_Witness ==
    /\ pc = "special"
    /\ Len(big_chunks) = 3
    /\ Len(emitted) = 4

HasText(rec) ==
    Len(rec) > 2 /\ Strip(SubSeq(rec, 2, Len(rec))) # <<>>

\* C2 (as claimed): the small chunks of the final output, concatenated, are
\* exactly the records the walker emitted.  Stated for the runs in which the
\* walker emitted a record, every record has text and no special section
\* yielded anything, so that only the final pass can make the difference.
C2_PartitionFinal ==
    ( /\ HtmlSucceeded
      /\ emitted # <<>>
      /\ special = <<>>
      /\ \A i \in 1..Len(emitted) : HasText(emitted[i].rec) )
    => SmallChunks(big_chunks) = Recs(emitted)

\* A record that stands for a whole subtree.
IsCompositeRecord(e) ==
    \/ soup[e.node].tag \in {"table", "ul", "ol", "dl"}
    \/ StartsWith(e.rec, <<"WARNING:">>)

\* C3: in the main traversal no node is emitted twice, and once a table,
\* list, definition list or warning block is emitted as one record, none of
\* its descendants is emitted as a record of its own.
C3_NoReemission ==
    \A i, j \in 1..Len(emitted) :
        i # j =>
          /\ emitted[i].node # emitted[j].node
          /\ IsCompositeRecord(emitted[i])
               => emitted[j].node \notin Descendants(soup, emitted[i].node)

C3_Witness ==
    /\ pc = "special"
    /\ \E i \in 1..Len(emitted) :
         /\ IsCompositeRecord(emitted[i])
         /\ \E m \in Descendants(soup, emitted[i].node) : soup[m].tag = "p"
         /\ i < Len(emitted)

Normalized(rec) ==
    Lower(Strip(rec))

C5_EmptyDocument ==
    (pc = "done" /\ html_content # NotAString /\ emitted = <<>>) =>
      /\ result[1].success
      /\ Len(result[1].content[1].big_chunks) = 1
      /\ result[1].content[1].big_chunks[1].big_chunk_index = 1
      /\ result[1].content[1].big_chunks[1].small_chunks # <<>>

C5_Witness ==
    /\ pc = "done"
    /\ html_content # NotAString
    /\ html_content[1] # <<>>
    /\ emitted = <<>>

\* C6: extract_content ends with a triple of one of two shapes: success
\* with content and no error, or failure with no content and a message that
\* is not empty.
C6_ResultShape ==
    pc = "done" =>
      /\ result # <<>>
      /\ \/ /\ result[1].success
            /\ result[1].content # <<>>
            /\ result[1].error = <<>>
         \/ /\ ~result[1].success
            /\ result[1].content = <<>>
            /\ result[1].error # <<>>
            /\ result[1].error[1] # ""

C6_Witness ==
    pc = "done" /\ ~result[1].success

\* The element the traversal stands at is formatted, not skipped.
Formats(n) ==
    /\ ~IsAlreadyProcessed(soup, n, processed_elements)
    /\ ~IsInsideProcessedContainer(soup, n, processed_elements)

\* No other record comes from the node of a WARNING record or from below it.
WarningOnce ==
    \A i, j \in 1..Len(emitted) :
        (i # j /\ StartsWith(emitted[i].rec, <<"WARNING:">>)) =>
          emitted[j].node \notin {emitted[i].node} \cup Descendants(soup, emitted[i].node)

\* C7: a step that formats a node matching warning detection, whatever its
\* tag, emits exactly one record for it, with the WARNING: prefix, and marks
\* the node and all its descendants processed; and no other record ever comes
\* from that node or its descendants.
C7_WarningPrecedence ==
    /\ [][ ( /\ pc = "walk"
             /\ pos <= Len(elements)
             /\ Formats(elements[pos])
             /\ IsWarningBlock(soup, elements[pos]) )
           => /\ Len(emitted') = Len(emitted) + 1
              /\ emitted'[Len(emitted')].node = elements[pos]
              /\ StartsWith(emitted'[Len(emitted')].rec, <<"WARNING:">>)
              /\ MarkWithDescendants(soup, elements[pos]) \subseteq processed_elements'
         ]_vars
    /\ []WarningOnce

\* A div that holds a warning paragraph and another paragraph gave one
\* WARNING record, and the traversal is over.
C7_Witness ==
    /\ pc = "special"
    /\ \E i \in 1..Len(emitted) :
         /\ StartsWith(emitted[i].rec, <<"WARNING:">>)
         /\ soup[emitted[i].node].tag = "div"
         /\ Cardinality({m \in Descendants(soup, emitted[i].node) : soup[m].tag = "p"}) = 2

Contiguous(chunks) ==
    \A i \in 1..Len(chunks) : chunks[i].big_chunk_index = i

\* C8: in both extractors the i-th big chunk has big_chunk_index i.
C8_ContiguousIndices ==
    Contiguous(big_chunks) /\ Contiguous(org_big_chunks)

C8_Witness ==
    HtmlSucceeded /\ Len(big_chunks) = 3

\* C9 (as claimed): every record with text that the main traversal or a
\* special section yields is in a big chunk of the result, and the output is
\* the placeholder only when the document yields no record at all.
C9_EveryRecordChunked ==
    HtmlSucceeded =>
      LET all == SmallChunks(big_chunks)
          yielded == Recs(emitted) \o special
      IN  /\ \A i \in 1..Len(yielded) :
                HasText(yielded[i]) => \E j \in 1..Len(all) : all[j] = Strip(yielded[i])
          /\ all = <<Placeholder>> => yielded = <<>>

\* C10 (as claimed): every small chunk of the output has text after its prefix.
C10_NoEmptyRecord ==
    HtmlSucceeded =>
      \A c \in 1..Len(big_chunks) :
        \A i \in 1..Len(big_chunks[c].small_chunks) :
          HasText(big_chunks[c].small_chunks[i])

\* No raw line break and no two spaces in a row.
WhitespaceNormalized(rec) ==
    /\ ~Contains(rec, NL)
    /\ \A i \in 1..(Len(rec) - 1) : ~(rec[i] = SP /\ rec[i + 1] = SP)

\* C11 (as claimed): every record either extractor emits is
\* whitespace-normalized: the records of the main traversal and of the special
\* sections, the small chunks of the output, and the content parts of the URL
\* variant hold no raw line break and no run of two or more spaces.
C11_WhitespaceNormalized ==
    /\ \A i \in 1..Len(emitted) : WhitespaceNormalized(emitted[i].rec)
    /\ \A i \in 1..Len(special) : WhitespaceNormalized(special[i])
    /\ \A i \in 1..Len(SmallChunks(big_chunks)) :
          WhitespaceNormalized(SmallChunks(big_chunks)[i])
    /\ \A i \in 1..Len(content_parts) : WhitespaceNormalized(content_parts[i])

\* C12: a call of HTMLContentExtractor.extract_content that ends returns what
\* every earlier call on the same extractor returned for the same input; the
\* first call is the one on a new extractor, with no call before it.
C12_SameInputSameResult ==
    pc = "done" =>
      \A i \in 1..Len(calls) :
        calls[i].input = html_content => calls[i].result = result[1]

\* The third call repeats the first, which gave three big chunks, after a
\* call that failed.
C12_Witness ==
    /\ pc = "done"
    /\ Len(calls) = 2
    /\ calls[1].input = html_content
    /\ ~calls[2].result.success
    /\ result[1].success
    /\ Len(result[1].content[1].big_chunks) = 3

\* The thread that is on has finished the call whose input the call that ran
\* alone had.
RepeatsCallAlone ==
    /\ pc = "done"
    /\ other # <<>>
    /\ html_content = calls[1].input

\* C13 (as amended): two invocations made through extract_html_content, each
\* on the extractor the function makes for it, share nothing: however their
\* steps interleave, an invocation returns what the same input returned when
\* its call ran alone.
C13_SeparateExtractors ==
    (RepeatsCallAlone /\ other[1].entry = "function") => result[1] = calls[1].result

\* An invocation has returned its three big chunks while the invocation of
\* the other thread, on an extractor of its own, is in the middle of its
\* traversal.
C13_Witness ==
    /\ RepeatsCallAlone
    /\ other[1].entry = "function"
    /\ result[1].success
    /\ Len(result[1].content[1].big_chunks) = 3
    /\ other[1].pc = "walk"
    /\ other[1].pos = 2
    /\ other[1].emitted # <<>>

\* C13 (as claimed): for any interleaving of two extract_content invocations,
\* on whatever extractor, each returns what it returns when run alone.
C13_AnyInterleaving ==
    RepeatsCallAlone => result[1] = calls[1].result

\* The step formats the element it stands at by its tag: the element has one
\* of the tags, is not skipped and is no warning block.
FormatsByTag(tags) ==
    /\ pc = "walk"
    /\ pos <= Len(elements)
    /\ soup[elements[pos]].tag \in tags
    /\ Formats(elements[pos])
    /\ ~IsWarningBlock(soup, elements[pos])

\* The step emits rec for the element it stands at and nothing else; it
\* emits nothing when rec is NoRecord.
EmitsExactly(rec) ==
    emitted' = IF rec = NoRecord THEN emitted
               ELSE Append(emitted, [node |-> elements[pos], rec |-> rec])

\* The texts of a sequence that are not empty.
Filled(texts) ==
    SelectSeq(texts, LAMBDA t : t # <<>>)

\* The line of a row with the given cell texts under the given column labels.
ClaimedTableLine(labels, cells) ==
    IF labels # <<>> /\ Len(cells) = Len(labels)
    THEN Join(Filled([i \in 1..Len(cells) |->
                        IF cells[i] = <<>> THEN <<>>
                        ELSE labels[i] \o <<":", SP>> \o cells[i]]),
              <<SP, "|", SP>>)
    ELSE Join(Filled(cells), <<SP, "|", SP>>)

\* The record of a table: the header cells of the first row are the column
\* labels; every row after the header row (every row when there are no
\* labels) with a cell that is not empty gives a line.
ClaimedTable(d, n) ==
    LET rows == FindAll(d, n, {"tr"})
        CellsOf(r) == CleanTexts(d, FindAll(d, r, {"td", "th"}))
        labels == IF rows # <<>> /\ FindAll(d, rows[1], {"th"}) # <<>>
                  THEN CleanTexts(d, FindAll(d, rows[1], {"th"}))
                  ELSE <<>>
        later == IF labels # <<>> THEN Tail(rows) ELSE rows
        used == SelectSeq(later, LAMBDA r : Filled(CellsOf(r)) # <<>>)
        lines == [i \in 1..Len(used) |-> ClaimedTableLine(labels, CellsOf(used[i]))]
    IN  IF lines = <<>> THEN NoRecord
        ELSE <<"TABLE:", SP>> \o Join(lines, <<SP, "//", SP>>)

\* 'TABLE: Risk: Low | Level: 3'
RiskLevelRecord ==
    <<"TABLE:", SP, "A", ":", SP, "a", SP, "|", SP, "B", ":", SP, "b">>

\* C14: a step that formats a table emits exactly the TABLE record the rule
\* gives (header cells of the first row as labels; a line per later row with
\* a cell that is not empty; 'Header: value' pairs joined by ' | ' when the
\* row has as many cells as there are headers, empty values left out, else
\* the cell texts that are not empty joined by ' | '; lines joined by ' // ');
\* the table (Risk, Level) / (Low, 3) gives 'TABLE: Risk: Low | Level: 3';
\* and no call on a document fails, whatever rows its tables have.
C14_TableFormat ==
    /\ [][ FormatsByTag({"table"}) => EmitsExactly(ClaimedTable(soup, elements[pos])) ]_vars
    /\ []( ( /\ pc = "done"
             /\ html_content \in { <<RiskLevelTable>>,
                                   <<Under(Plain("article", <<>>), <<RiskLevelTable>>)>> } )
           => result[1].content[1].big_chunks = <<BigChunk(1, <<RiskLevelRecord>>)>> )
    /\ []( (pc = "done" /\ html_content # NotAString) => result[1].success )

\* The table (Risk, Level) / (Low, 3) has given its record.
C14_Witness ==
    /\ pc = "special"
    /\ html_content = <<RiskLevelTable>>
    /\ Recs(emitted) = <<RiskLevelRecord>>

\* The record of a list: the normalized texts of its li children, in order,
\* the empty ones left out; no record when none is left.
ClaimedList(d, n) ==
    LET kids == Sorted({m \in Nodes(d) : d[m].parent = n /\ d[m].tag = "li"})
        items == Filled(CleanTexts(d, kids))
        label == IF d[n].tag = "ol" THEN "ORDERED_LIST:" ELSE "UNORDERED_LIST:"
    IN  IF items = <<>> THEN NoRecord
        ELSE <<label, SP>> \o Join(items, <<SP, "//", SP>>)

\* 'UNORDERED_LIST: A // B'
ListABRecord ==
    <<"UNORDERED_LIST:", SP, "A", SP, "//", SP, "B">>

\* C15: a step that formats an ol or ul emits exactly one record, whose
\* items are the normalized texts of the direct li children, in order, the
\* empty ones left out, joined by ' // ' after ORDERED_LIST: or
\* UNORDERED_LIST: (and no record when every item is empty); nothing below an
\* emitted list is emitted as a record of its own; the ul with the items A, B
\* gives 'UNORDERED_LIST: A // B'.
C15_ListFormat ==
    /\ [][ FormatsByTag({"ul", "ol"}) => EmitsExactly(ClaimedList(soup, elements[pos])) ]_vars
    /\ []( \A i, j \in 1..Len(emitted) :
              soup[emitted[i].node].tag \in {"ul", "ol"}
                => emitted[j].node \notin Descendants(soup, emitted[i].node) )
    /\ []( ( /\ pc = "done"
             /\ html_content \in { <<ListAB>>, <<Under(Plain("article", <<>>), <<ListAB>>)>> } )
           => result[1].content[1].big_chunks = <<BigChunk(1, <<ListABRecord>>)>> )

\* A list with a list nested in an item has been walked through and has
\* given one record.
C15_Witness ==
    /\ pc = "special"
    /\ Len(emitted) = 1
    /\ soup[emitted[1].node].tag = "ul"
    /\ \E m \in Descendants(soup, emitted[1].node) : soup[m].tag = "ul"

\* The record of a heading node: its label, a space, and a text that does
\* not begin with the label again.
SingleLabel(rec, label) ==
    /\ Len(rec) >= 2
    /\ rec[1] = label
    /\ rec[2] = SP
    /\ ~StartsWith(SubSeq(rec, 3, Len(rec)), <<label>>)

\* C16 (as claimed): the record of every h1..h6 node that is emitted as a
\* heading is '{TAG}: {text}' with a text that does not itself begin with
\* '{TAG}:', whatever the raw text of the node, one or more repetitions of
\* the label at its head included.
C16_NoDoubledLabel ==
    \A i \in 1..Len(emitted) :
        ( /\ soup[emitted[i].node].tag \in Headings
          /\ ~StartsWith(emitted[i].rec, <<"WARNING:">>) )
        => SingleLabel(emitted[i].rec, HeadingPrefix(soup[emitted[i].node].tag))

\* C17 (as claimed): when the URL variant extracts no content part, it
\* returns success with exactly one big chunk, whose small_chunks list is not
\* empty.
C17_UrlDegenerateOutput ==
    (pc = "url_done" /\ result[1].success /\ content_parts = <<>>) =>
      /\ Len(result[1].content[1].big_chunks) = 1
      /\ result[1].content[1].big_chunks[1].small_chunks # <<>>

\* C18 (as claimed): in the record sequence of _extract_structured_content
\* no element is the source of two records, and no element below a table,
\* list or definition list that gave a composite record gives a record of
\* its own.
C18_UrlNoDuplication ==
    UrlSucceeded =>
      LET d == html_content[1]
          e == StructuredRecords(d)
      IN  \A i, j \in 1..Len(e) :
            i # j =>
              /\ e[i].node # e[j].node
              /\ d[e[i].node].tag \in {"table", "ul", "ol", "dl"}
                   => e[j].node \notin Descendants(d, e[i].node)

\* The table and all that is below it are marked processed.
TableConsumed(t) ==
    MarkWithDescendants(soup, t) \subseteq processed_elements

\* C19: a step in which the walker formats a table marks the table and
\* every descendant processed, whether or not it emits a TABLE record, and
\* emits at most the record of the table; the marks stay for the rest of the
\* traversal; and a step at an element below a table so marked emits no
\* record.
C19_TableConsumed ==
    /\ [][ ( /\ pc = "walk"
             /\ pos <= Len(elements)
             /\ soup[elements[pos]].tag = "table"
             /\ Formats(elements[pos]) )
           => /\ MarkWithDescendants(soup, elements[pos]) \subseteq processed_elements'
              /\ \/ emitted' = emitted
                 \/ /\ Len(emitted') = Len(emitted) + 1
                    /\ emitted'[Len(emitted')].node = elements[pos]
         ]_vars
    /\ [][ (pc = "walk" /\ pc' \in {"walk", "special"})
           => processed_elements \subseteq processed_elements' ]_vars
    /\ [][ ( /\ pc = "walk"
             /\ pos <= Len(elements)
             /\ \E t \in Ancestors(soup, elements[pos]) :
                  soup[t].tag = "table" /\ TableConsumed(t) )
           => emitted' = emitted ]_vars

\* The traversal of a table that has only a header row, with a paragraph in
\* its header cell, is over: the table is marked with all below it and
\* nothing was emitted.
C19_Witness ==
    /\ pc = "special"
    /\ emitted = <<>>
    /\ \E k \in 1..Len(elements) :
         /\ soup[elements[k]].tag = "table"
         /\ TableConsumed(elements[k])
         /\ \E m \in Descendants(soup, elements[k]) : soup[m].tag = "p"

\* The term/definition pairs of a definition list: a term with text and the
\* definition with text that follows it at once.  A term that no definition
\* follows is in no pair.
ClaimedPairs(d, n) ==
    LET es == FindAll(d, n, {"dt", "dd"})
        at == Sorted({i \in 1..(Len(es) - 1) :
                        /\ d[es[i]].tag = "dt"
                        /\ d[es[i + 1]].tag = "dd"
                        /\ CleanText(GetText(d, es[i])) # <<>>
                        /\ CleanText(GetText(d, es[i + 1])) # <<>>})
    IN  [k \in 1..Len(at) |->
           [term |-> CleanText(GetText(d, es[at[k]])),
            definition |-> CleanText(GetText(d, es[at[k] + 1]))]]

\* The record of a definition list whose pairs are given, FAQ: when faq holds.
ClaimedDefinitionList(pairs, faq) ==
    IF pairs = <<>> THEN NoRecord
    ELSE <<IF faq THEN "FAQ:" ELSE "DEFINITION_LIST:", SP>>
           \o Join([k \in 1..Len(pairs) |->
                      pairs[k].term \o <<":", SP>> \o pairs[k].definition],
                   <<SP, "//", SP>>)

\* C20 (as amended): a step that formats a definition list with at least one
\* term/definition pair emits one record of the pairs, with the prefix FAQ:
\* exactly when the term or the definition of some pair contains a question
\* mark and DEFINITION_LIST: otherwise; a term that no definition follows is
\* left out, and a list with no pair gives no record.
C20_FaqByPairText ==
    [][ FormatsByTag({"dl"})
        => LET pairs == ClaimedPairs(soup, elements[pos])
           IN  EmitsExactly(ClaimedDefinitionList(pairs,
                 \E k \in 1..Len(pairs) :
                    Contains(pairs[k].term, QMARK) \/ Contains(pairs[k].definition, QMARK)))
      ]_vars

\* A definition list whose only question mark is in a term has given an
\* FAQ: record.
C20_Witness ==
    /\ pc = "special"
    /\ Len(emitted) = 1
    /\ soup[emitted[1].node].tag = "dl"
    /\ StartsWith(emitted[1].rec, <<"FAQ:">>)
    /\ \A m \in Descendants(soup, emitted[1].node) :
         soup[m].tag = "dd" => ~Contains(GetText(soup, m), QMARK)

\* C20 (as claimed): the prefix is FAQ: exactly when the definition text of
\* some pair contains a question mark.
C20_FaqByDefinitionText ==
    [][ FormatsByTag({"dl"})
        => LET pairs == ClaimedPairs(soup, elements[pos])
           IN  EmitsExactly(ClaimedDefinitionList(pairs,
                 \E k \in 1..Len(pairs) : Contains(pairs[k].definition, QMARK)))
      ]_vars

\* A div or section that carries the FAQ marker or the author-card marker.
IsMarkedContainer(d, n) ==
    /\ d[n].tag \in {"div", "section"}
    /\ \/ "faq" \in d[n].cls
       \/ d[n].qa \in {FaqMarker, AuthorMarker}

\* The record a marked container is to give: its full text under FAQ: or AUTHOR:.
MarkedContainerRecord(d, n) ==
    <<IF d[n].qa = AuthorMarker THEN "AUTHOR:" ELSE "FAQ:", SP>> \o CleanText(GetText(d, n))

\* The small chunks that _extract_special_sections has appended, when it has
\* run: those after the records of the main traversal.
AppendedRecords ==
    SubSeq(SmallChunks(big_chunks), Len(emitted) + 1, Len(SmallChunks(big_chunks)))

\* The records of the output before the final pass, each with the element it
\* was made from: those of the main traversal, then the appended ones, which
\* come from the section soup.find gives for the marker of their prefix.
SourcedRecords ==
    emitted \o
      [i \in 1..Len(AppendedRecords) |->
         [node |-> IF StartsWith(AppendedRecords[i], <<"FAQ:">>)
                   THEN FindSection(soup, FaqMarker)
                   ELSE FindSection(soup, AuthorMarker),
          rec |-> AppendedRecords[i]]]

\* The container is one the main traversal comes to on its own account: it is
\* in the list the traversal iterates over, it has text, neither it nor an
\* element above it is a warning block, and no element above it is a table,
\* list, definition list or marked container.
WalkedOnItsOwn(n) ==
    /\ \E k \in 1..Len(elements) : elements[k] = n
    /\ CleanText(GetText(soup, n)) # <<>>
    /\ \A a \in {n} \cup Ancestors(soup, n) : ~IsWarningBlock(soup, a)
    /\ \A a \in Ancestors(soup, n) :
         soup[a].tag \notin ParentContainers /\ ~IsMarkedContainer(soup, a)

\* C21 (as claimed): when the special sections have been handled, every div
\* or section of the main content area with the FAQ marker or the author-card
\* marker is the source of exactly one record, its full text under FAQ: or
\* AUTHOR:, and no other record of the output comes from the container or
\* from an element below it.
C21_MarkedContainerOneRecord ==
    pc = "json" =>
      \A n \in Nodes(soup) :
        (IsMarkedContainer(soup, n) /\ WalkedOnItsOwn(n)) =>
          LET from == {i \in 1..Len(SourcedRecords) :
                         SourcedRecords[i].node \in {n} \cup Descendants(soup, n)}
          IN  /\ Cardinality(from) = 1
              /\ \A i \in from :
                   SourcedRecords[i] = [node |-> n, rec |-> MarkedContainerRecord(soup, n)]

\* The records of seq after the first n.
After(seq, n) ==
    SubSeq(seq, n + 1, Len(seq))

FirstOccurrences(list) ==
    Sorted({i \in 1..Len(list) :
              \A j \in 1..(i - 1) : Normalized(list[j]) # Normalized(list[i])})

\* C23 (as amended): _deduplicate_content returns, each trimmed, the records
\* of its input that are not empty after trimming and whose case-insensitive
\* trimmed text no earlier record has, in their original order; applying it
\* to its own result gives that result again.
C23_TrimmedFirstOccurrences ==
    /\ Len(deduplicated) >= 1 =>
         LET first == FirstOccurrences(small_chunks)
             kept == SelectSeq(first, LAMBDA i : Strip(small_chunks[i]) # <<>>)
         IN  deduplicated[1] = [k \in 1..Len(kept) |-> Strip(small_chunks[kept[k]])]
    /\ Len(deduplicated) = 2 => deduplicated[2] = deduplicated[1]

\* The function was applied twice to a list of four records, two of them
\* repeating an earlier one in another case, one ending in a blank.
C23_Witness ==
    /\ Len(deduplicated) = 2
    /\ Len(small_chunks) = 4
    /\ Len(deduplicated[1]) = 2
    /\ \E i \in 1..4 : small_chunks[i] = <<"FAQ:", SP>>
    /\ \E i \in 1..2 : deduplicated[1][i] = <<"FAQ:">>

\* C23 (as claimed): _deduplicate_content returns a subsequence of its
\* input: exactly the first occurrence of each distinct case-insensitive
\* trimmed text, as it stands in the input, in the original order; applying
\* it twice gives what applying it once gives.
C23_SubsequenceOfInput ==
    /\ Len(deduplicated) >= 1 =>
         LET first == FirstOccurrences(small_chunks)
         IN  deduplicated[1] = [k \in 1..Len(first) |-> small_chunks[first[k]]]
    /\ Len(deduplicated) = 2 => deduplicated[2] = deduplicated[1]

\* a can be had from b by leaving records out.
RECURSIVE IsSubsequence(_, _)
IsSubsequence(a, b) ==
    IF a = <<>> THEN TRUE
    ELSE IF b = <<>> THEN FALSE
    ELSE IF Head(a) = Head(b) THEN IsSubsequence(Tail(a), Tail(b))
    ELSE IsSubsequence(a, Tail(b))

\* The buffer the records of the open chunk are in.
OpenBuffer ==
    IF current_h2_section = <<>> THEN pre_h2_content ELSE current_chunk_content

\* C24: the records of the main traversal are in document order: the nodes
\* that emit come in ascending depth-first order; while the traversal runs,
\* the closed chunks and the open buffer hold the records in the order of
\* their nodes; when it has ended, the concatenation of all small_chunks is
\* the record sequence in that order; and the final pass leaves the records
\* it keeps in that order.
C24_DocumentOrder ==
    /\ \A i, j \in 1..Len(emitted) : i < j => emitted[i].node < emitted[j].node
    /\ pc = "walk" => SmallChunks(big_chunks) \o OpenBuffer = Recs(emitted)
    /\ pc = "special" => SmallChunks(big_chunks) = Recs(emitted)
    /\ HtmlSucceeded /\ emitted # <<>> =>
         IsSubsequence(SmallChunks(big_chunks),
                       [i \in 1..Len(emitted) |-> Strip(emitted[i].rec)]
                         \o [i \in 1..Len(special) |-> Strip(special[i])])

\* The traversal is over; it gave three records with different texts, the
\* last from a node below a section, in two big chunks.
C24_Witness ==
    /\ pc = "special"
    /\ Len(emitted) = 3
    /\ Len(big_chunks) = 2
    /\ soup[emitted[3].node].parent # 0
    /\ \A i, j \in 1..3 : i # j => emitted[i].rec # emitted[j].rec

\* is_authenticated
IsAuthenticated ==
    Get(session_state, "authenticated", FALSE)

\* C25 (as claimed): whenever get_current_user has returned in a script run,
\* it has returned 'Anonymous' if the session is not authenticated (no login
\* attempt yet, session initialised by check_authentication, failed login,
\* logout) and the name of the logged-in user otherwise.
C25_AnonymousUnlessLoggedIn ==
    current_user # <<>> =>
      current_user[1] = IF IsAuthenticated THEN session_state.username
                        ELSE <<"Anonymous">>

\* A paragraph of the traversal that stands outside any composite: it has
\* text, is no warning block, and no element above it is a table, list,
\* definition list, warning block or marked container.
FreeParagraph(n) ==
    /\ soup[n].tag = "p"
    /\ \E k \in 1..Len(elements) : elements[k] = n
    /\ CleanText(GetText(soup, n)) # <<>>
    /\ ~IsWarningBlock(soup, n)
    /\ \A a \in Ancestors(soup, n) :
         /\ soup[a].tag \notin ParentContainers
         /\ ~IsWarningBlock(soup, a)
         /\ ~IsMarkedContainer(soup, a)

\* The paragraph has given its own record.
HasOwnRecord(n) ==
    \E i \in 1..Len(emitted) :
        /\ emitted[i].node = n
        /\ emitted[i].rec \in { <<"CONTENT:", SP>> \o CleanText(GetText(soup, n)),
                                <<"LEAD:", SP>> \o CleanText(GetText(soup, n)) }

\* C26 (as claimed): a node is skipped as processed only when that very node
\* was marked, never because another node was; so when the traversal has
\* ended, of two paragraphs outside any composite whose normalized texts
\* differ, each has given its own record.
C26_DistinctTextsOwnRecords ==
    pc = "special" =>
      \A m, n \in Nodes(soup) :
        ( /\ m # n
          /\ FreeParagraph(m)
          /\ FreeParagraph(n)
          /\ CleanText(GetText(soup, m)) # CleanText(GetText(soup, n)) )
        => HasOwnRecord(m) /\ HasOwnRecord(n)

\* The warning phrase is in the string of the element itself.
HoldsWarningPhrase(n) ==
    \E i \in 1..Len(soup[n].text) : HasWarningWordIgnoreCase(soup[n].text[i])

\* A heading or paragraph next to e under a div or section: it has the same
\* parent, has text, is no warning block itself, and no other element of the
\* document has its tag, text and number of children.
SiblingBlockOf(n, e) ==
    /\ n # e
    /\ soup[n].parent = soup[e].parent
    /\ soup[n].parent # 0
    /\ soup[soup[n].parent].tag \in {"div", "section"}
    /\ soup[n].tag \in Headings \cup {"p"}
    /\ \E k \in 1..Len(elements) : elements[k] = n
    /\ CleanText(GetText(soup, n)) # <<>>
    /\ ~IsWarningBlock(soup, n)
    /\ \A m \in Nodes(soup) : m # n => GetElementId(soup, m) # GetElementId(soup, n)

\* C27 (as claimed): when the traversal has ended, a heading or paragraph
\* that is a sibling, under a common div or section, of an element holding a
\* warning phrase has given its own record, and a sibling h2 is the first
\* record of a big chunk.
C27_WarningSparesSiblings ==
    pc = "special" =>
      \A e, n \in Nodes(soup) :
        (HoldsWarningPhrase(e) /\ SiblingBlockOf(n, e)) =>
          /\ \E i \in 1..Len(emitted) : emitted[i].node = n
          /\ soup[n].tag = "h2" =>
               \E c \in 1..Len(big_chunks) :
                 big_chunks[c].small_chunks[1] = FormatHeading(soup, n).rec

\* An H2 record is nowhere but at the head of a big chunk, and every big
\* chunk after the first has one at its head.
H2OnlyOpensChunks(chunks) ==
    /\ \A c \in 1..Len(chunks) :
         \A i \in 1..Len(chunks[c].small_chunks) :
           IsH2(chunks[c].small_chunks[i]) => i = 1
    /\ \A c \in 2..Len(chunks) :
         /\ chunks[c].small_chunks # <<>>
         /\ IsH2(chunks[c].small_chunks[1])

\* C28: in both extractors, at every point of a call (while the chunks are
\* built, after the special sections are appended, after the final pass) and
\* in the output returned, a record that starts with H2: is the first small
\* chunk of its big chunk, and every big chunk but the first begins with one.
C28_H2OnlyOpensChunks ==
    /\ H2OnlyOpensChunks(big_chunks)
    /\ H2OnlyOpensChunks(org_big_chunks)
    /\ (result # <<>> /\ result[1].success)
         => H2OnlyOpensChunks(result[1].content[1].big_chunks)

\* The HTML variant has returned three big chunks: records before the first
\* H2, then two H2 sections, the first with a record after its heading.
C28_Witness ==
    /\ HtmlSucceeded
    /\ Len(result[1].content[1].big_chunks) = 3
    /\ ~IsH2(big_chunks[1].small_chunks[1])
    /\ IsH2(big_chunks[2].small_chunks[1])
    /\ Len(big_chunks[2].small_chunks) = 2
    /\ IsH2(big_chunks[3].small_chunks[1])

NoEmptyChunk(chunks) ==
    \A c \in 1..Len(chunks) : chunks[c].small_chunks # <<>>

\* C29: in both extractors, at every point of a call (closing a chunk at an
\* H2, the final chunk, the special sections, the final pass) and in the
\* output returned, every big chunk has at least one small chunk.
C29_NoEmptyBigChunk ==
    /\ NoEmptyChunk(big_chunks)
    /\ NoEmptyChunk(org_big_chunks)
    /\ (result # <<>> /\ result[1].success)
         => NoEmptyChunk(result[1].content[1].big_chunks)

\* The HTML variant has returned two big chunks, and the final pass took a
\* record out of one of them.
C29_Witness ==
    /\ HtmlSucceeded
    /\ Len(big_chunks) = 2
    /\ special = <<>>
    /\ Len(SmallChunks(big_chunks)) < Len(emitted)

\* C30: given the same list of formatted records, the chunking loop of
\* _extract_with_direct_chunking with its final chunk and _organize_by_h2
\* end with the same list of big chunks: the same big_chunk_index values and
\* the same small_chunks in the same order.
C30_OrganizersAgree ==
    pc = "fed" =>
      /\ big_chunks = org_big_chunks
      /\ result[1].content[1].big_chunks = big_chunks

\* Both organizers have made three big chunks of four records, the first of
\* which is no H2.
C30_Witness ==
    /\ pc = "fed"
    /\ Len(content_parts) = 4
    /\ ~IsH2(content_parts[1])
    /\ Len(org_big_chunks) = 3
    /\ Len(big_chunks) = 3

====
